---- MODULE Spec2Model ----
(***************************************************************************)
(* Pyrinth: a client binding to the Modrinth REST API.                     *)
(*                                                                         *)
(* The library is stateless between calls: every operation is a            *)
(* synchronous request/response mapping.  The model therefore records one  *)
(* call at a time: the operation, its arguments, the HTTP requests it      *)
(* issued (with the responses the server chose), and how it ended          *)
(* (a returned value or a raised exception).  Model objects are built by   *)
(* their constructors, serialized with to_json and parsed with from_json.  *)
(***************************************************************************)
EXTENDS Integers, Sequences, FiniteSets, TLC

VARIABLES
    op,        \* name of the last operation that ran
    args,      \* its arguments
    outcome,   \* how it ended: Return(v), Raise(e) or NoOutcome
    requests,  \* the HTTP requests it issued, in order, with their responses
    obj,       \* the object under construction / serialization
    doc,       \* the JSON document at hand (a to_json result or an API body)
    written    \* the files it wrote, in order, each with its content

vars == <<op, args, outcome, requests, obj, doc, written>>

(***************************************************************************)
(* Python values.  A value is a tagged record so that None, "", [] and     *)
(* False stay distinct.  A dict is a function from keys to values.         *)
(***************************************************************************)
None == [tag |-> "None"]
Str(s) == [tag |-> "str", val |-> s]
Chars(q) == [tag |-> "chars", val |-> q]
Bool(b) == [tag |-> "bool", val |-> b]
Num(n) == [tag |-> "int", val |-> n]
List(q) == [tag |-> "list", val |-> q]
Dict(d) == [tag |-> "dict", val |-> d]
EmptyDict == [k \in {} |-> None]

IsNone(v) == v.tag = "None"

\* Python truthiness (bool(v)).
Truthy(v) ==
    CASE v.tag = "None" -> FALSE
      [] v.tag = "str" -> v.val # ""
      [] v.tag = "chars" -> v.val # <<>>
      [] v.tag = "bool" -> v.val
      [] v.tag = "int" -> v.val # 0
      [] v.tag = "list" -> v.val # <<>>
      [] v.tag = "dict" -> DOMAIN v.val # {}

Return(v) == [kind |-> "return", val |-> v]
\* An exception holds the arguments its raise site passes.  The sites of
\* NotFoundError, NoAuthorizationError and InvalidParamError pass one string
\* literal; InvalidRequestError() is built from no argument.
MessageErrors == {"NotFoundError", "NoAuthorizationError", "InvalidParamError"}
Literal == [tag |-> "str", val |-> "message"]
Raise(e) ==
    [kind |-> "raise", err |-> e,
     args |-> IF e \in MessageErrors THEN <<Literal>> ELSE <<>>]
NoOutcome == [kind |-> "none"]
NoObj == [type |-> "none"]
NoDoc == [type |-> "none", of |-> "none"]
NoArgs == [none |-> TRUE]

Returned(o) == o.kind = "return"
Raised(o, e) == o.kind = "raise" /\ o.err = e

\* dict[key] for every key of keys succeeds
HasKeys(json, keys) == keys \subseteq DOMAIN json

(***************************************************************************)
(* util.py                                                                 *)
(***************************************************************************)
remove_null_values_keep_all(json) == json

remove_falsy_values(json) ==
    [key \in {k \in DOMAIN json : Truthy(json[k])} |-> json[key]]

remove_null_values(json) ==
    [key \in {k \in DOMAIN json : ~IsNone(json[k])} |-> json[key]]

\* s.split(sep)[-1] on a string held as a sequence of characters
RECURSIVE SplitLast(_, _)
SplitLast(s, sep) ==
    IF \A i \in 1..Len(s) : s[i] # sep
    THEN s
    ELSE SplitLast(Tail(s), sep)

remove_file_path(file) == SplitLast(file, "/")

(***************************************************************************)
(* Attribute access: an instance is [type, attrs]; reading an attribute    *)
(* the instance does not have raises AttributeError.                       *)
(***************************************************************************)
Instance(type, attrs) == [type |-> type, attrs |-> attrs]
HasAttrs(self, names) == names \subseteq DOMAIN self.attrs

(***************************************************************************)
(* models.py: ProjectModel                                                 *)
(***************************************************************************)
ProjectModel_init(slug, title, description, categories, client_side, server_side, body, license_id, project_type, additional_categories, issues_url, source_url, wiki_url, discord_url, license_url) ==
    LET base == [slug |-> slug, title |-> title, description |-> description,
                 categories |-> categories, client_side |-> client_side,
                 server_side |-> server_side, body |-> body,
                 project_type |-> project_type,
                 additional_categories |-> additional_categories,
                 issues_url |-> issues_url, source_url |-> source_url,
                 wiki_url |-> wiki_url, discord_url |-> discord_url,
                 license_url |-> license_url, donation_urls |-> None,
                 id |-> None, downloads |-> None]
        \* a dict license_id builds a License and leaves self.license_id unset
        attrs == IF license_id.tag = "dict"
                 THEN base
                 ELSE [k \in DOMAIN base \cup {"license_id"} |->
                          IF k = "license_id" THEN license_id ELSE base[k]]
    IN Instance("ProjectModel", attrs)

ProjectModel_from_json_keys ==
    {"slug", "title", "description", "categories", "client_side",
     "server_side", "body", "license", "project_type",
     "additional_categories", "issues_url", "source_url", "wiki_url",
     "discord_url", "id", "downloads", "donation_urls"}

ProjectModel_from_json(json) ==
    IF ~HasKeys(json, ProjectModel_from_json_keys) THEN Raise("KeyError")
    ELSE IF json["license"].tag # "dict" THEN Raise("TypeError")
    ELSE IF ~HasKeys(json["license"].val, {"id", "url"}) THEN Raise("KeyError")
    ELSE
      LET result == ProjectModel_init(
              json["slug"], json["title"], json["description"],
              json["categories"], json["client_side"], json["server_side"],
              json["body"], json["license"].val["id"], json["project_type"],
              json["additional_categories"], json["issues_url"],
              json["source_url"], json["wiki_url"], json["discord_url"],
              json["license"].val["url"])
          set == [id |-> json["id"], downloads |-> json["downloads"],
                  donation_urls |-> json["donation_urls"]]
      IN Return(Instance("ProjectModel",
                  [k \in DOMAIN result.attrs |->
                      IF k \in DOMAIN set THEN set[k] ELSE result.attrs[k]]))

ProjectModel_to_json_attrs ==
    {"slug", "title", "description", "categories", "client_side",
     "server_side", "body", "license_id", "project_type",
     "additional_categories", "issues_url", "source_url", "wiki_url",
     "discord_url", "donation_urls", "license_url", "id"}

ProjectModel_to_json(self) ==
    IF ~HasAttrs(self, ProjectModel_to_json_attrs) THEN Raise("AttributeError")
    ELSE
      LET result == [k \in ProjectModel_to_json_attrs
                           \cup {"is_draft", "initial_versions"} |->
                        IF k = "is_draft" THEN Bool(TRUE)
                        ELSE IF k = "initial_versions" THEN List(<<>>)
                        ELSE self.attrs[k]]
      IN Return(remove_null_values(result))

(***************************************************************************)
(* models.py: SearchResultModel                                            *)
(***************************************************************************)
SearchResultModel_fields ==
    {"slug", "title", "description", "client_side", "server_side",
     "project_type", "downloads", "project_id", "author", "versions",
     "follows", "date_created", "date_modified", "license", "categories",
     "icon_url", "color", "display_categories", "latest_version", "gallery",
     "featured_gallery"}

\* the constructor stores every parameter under its own name
SearchResultModel_init(a) ==
    Instance("SearchResultModel", [k \in SearchResultModel_fields |-> a[k]])

SearchResultModel_from_json(json) ==
    IF ~HasKeys(json, SearchResultModel_fields) THEN Raise("KeyError")
    ELSE Return(SearchResultModel_init(json))

SearchResultModel_to_json(self) ==
    IF ~HasAttrs(self, SearchResultModel_fields) THEN Raise("AttributeError")
    ELSE Return(remove_null_values(
                  [k \in SearchResultModel_fields |-> self.attrs[k]]))

(***************************************************************************)
(* models.py: VersionModel                                                 *)
(***************************************************************************)
VersionModel_init(name, version_number, dependencies, game_versions, version_type, loaders, featured, file_parts, changelog, status, requested_status) ==
    Instance("VersionModel",
        [name |-> name, version_number |-> version_number,
         changelog |-> changelog, dependencies |-> dependencies,
         game_versions |-> game_versions, version_type |-> version_type,
         loaders |-> loaders, featured |-> featured, status |-> status,
         requested_status |-> requested_status, files |-> file_parts,
         project_id |-> None, id |-> None, author_id |-> None,
         date_published |-> None, downloads |-> None])

VersionModel_from_json_keys ==
    {"name", "version_number", "dependencies", "game_versions",
     "version_type", "loaders", "featured", "files", "changelog", "status",
     "requested_status"}

VersionModel_from_json(json) ==
    IF ~HasKeys(json, VersionModel_from_json_keys) THEN Raise("KeyError")
    ELSE Return(VersionModel_init(
                  json["name"], json["version_number"], json["dependencies"],
                  json["game_versions"], json["version_type"],
                  json["loaders"], json["featured"], json["files"],
                  json["changelog"], json["status"],
                  json["requested_status"]))

VersionModel_to_json_attrs ==
    {"name", "version_number", "changelog", "dependencies", "game_versions",
     "version_type", "loaders", "featured", "status", "requested_status",
     "files", "project_id", "id", "author_id", "date_published", "downloads"}

\* the attribute files is written under the key file_parts
VersionModel_to_json(self) ==
    IF ~HasAttrs(self, VersionModel_to_json_attrs) THEN Raise("AttributeError")
    ELSE
      LET keys == (VersionModel_to_json_attrs \ {"files"}) \cup {"file_parts"}
          result == [k \in keys |->
                        IF k = "file_parts" THEN self.attrs["files"]
                        ELSE self.attrs[k]]
      IN Return(remove_null_values(result))

(***************************************************************************)
(* models.py: UserModel                                                    *)
(***************************************************************************)
UserModel_fields ==
    {"username", "id", "avatar_url", "created", "role", "name", "email",
     "bio", "payout_data", "github_id", "badges"}

UserModel_init(a) ==
    Instance("UserModel", [k \in UserModel_fields |-> a[k]])

\* from_json builds a VersionModel from the eleven values, positionally
UserModel_from_json(json) ==
    IF ~HasKeys(json, UserModel_fields) THEN Raise("KeyError")
    ELSE Return(VersionModel_init(
                  json["username"], json["id"], json["avatar_url"],
                  json["created"], json["role"], json["name"],
                  json["email"], json["bio"], json["payout_data"],
                  json["github_id"], json["badges"]))

UserModel_to_json(self) ==
    IF ~HasAttrs(self, UserModel_fields) THEN Raise("AttributeError")
    ELSE Return(remove_null_values([k \in UserModel_fields |-> self.attrs[k]]))

(***************************************************************************)
(* HTTP.  A request is recorded with the response the server gave.         *)
(* requests' Response.ok is status < 400.                                  *)
(***************************************************************************)
Statuses == {200, 400, 401, 404, 500}
\* the statuses a writing operation can be answered with: 304 is below 400
\* and not a success status
WriteStatuses == Statuses \cup {304}
Ok(status) == status < 400
Request(method, url, status) ==
    [method |-> method, url |-> url, status |-> status]

\* what a call that may use the network gives back
Result(out, reqs) == [out |-> out, reqs |-> reqs]

(***************************************************************************)
(* The remote catalogue: one project, known by its slug and by its id.     *)
(***************************************************************************)
ProjectSlug == Str("sodium")
ProjectId == Str("AANobbMI")
KnownProject(key) == key \in {ProjectSlug, ProjectId}

(***************************************************************************)
(* The client entry point (Modrinth.get_project): GET /project/{id},       *)
(* 404 -> NotFoundError, other failures -> InvalidRequestError, else the   *)
(* Project parsed from the body.  status is the server's answer; a         *)
(* project the server does not know is never answered with success.        *)
(***************************************************************************)
LookupStatuses(key) ==
    IF KnownProject(key) THEN Statuses ELSE Statuses \ {200}

\* The body of GET /project/{id} for the catalogue's project
ApiLicense(nulls) ==
    [id |-> Str("license_id"), name |-> Str("license_name"),
     url |-> IF "license_url" \in nulls THEN None ELSE Str("license_url")]
ApiProject(nulls) ==
    [k \in ProjectModel_from_json_keys |->
        IF k = "license" THEN Dict(ApiLicense(nulls))
        ELSE IF k = "slug" THEN ProjectSlug
        ELSE IF k = "id" THEN ProjectId
        ELSE IF k \in nulls THEN None ELSE Str(k)]

\* Project(project_model): a dict is parsed with ProjectModel.from_json
Project_init(project_model) ==
    IF project_model.tag = "dict"
    THEN LET parsed == ProjectModel_from_json(project_model.val)
         IN IF Returned(parsed)
            THEN Return(Instance("Project", [model |-> parsed.val]))
            ELSE parsed
    ELSE Return(Instance("Project", [model |-> project_model.val]))

\* model.auth is no attribute of a ProjectModel or UserModel until something
\* sets it: "unset" leaves the handle as built, "None" and a token set it.
AuthStates == {"unset", "None", "token"}
WithAuthAttr(self, auth) ==
    IF auth = "unset" THEN self
    ELSE LET model == self.attrs["model"]
             value == IF auth = "None" THEN None ELSE Str(auth)
         IN Instance(self.type,
              [model |-> Instance(model.type,
                  [k \in DOMAIN model.attrs \cup {"auth"} |->
                      IF k = "auth" THEN value ELSE model.attrs[k]])])

Modrinth_get_project(id_, status, auth) ==
    LET req == <<[method |-> "GET", url |-> "/project/{id}", id |-> id_,
                  status |-> status]>>
    IN IF status = 404 THEN Result(Raise("NotFoundError"), req)
       ELSE IF ~Ok(status) THEN Result(Raise("InvalidRequestError"), req)
       ELSE Result(Return(WithAuthAttr(
                Project_init(Dict(ApiProject({}))).val, auth)), req)

Project_get_id(self) == self.attrs["model"].attrs["id"]

(***************************************************************************)
(* projects.py: Project.GalleryImage                                       *)
(***************************************************************************)
\* str(v).lower()
StrLower(v) ==
    CASE v.tag = "None" -> Str("none")
      [] v.tag = "bool" -> IF v.val THEN Str("true") ELSE Str("false")
      [] OTHER -> v

GalleryImage_init(file_path, featured, title, description, ordering) ==
    IF file_path.tag # "chars" THEN Raise("AttributeError")
    ELSE Return(Instance("GalleryImage",
           [file_path |-> file_path,
            ext |-> Chars(SplitLast(file_path.val, ".")),
            featured |-> StrLower(featured), title |-> title,
            description |-> description, ordering |-> ordering]))

GalleryImage_from_json(json_) ==
    IF ~HasKeys(json_, {"url", "featured", "title", "description", "ordering"})
    THEN Raise("KeyError")
    ELSE GalleryImage_init(json_["url"], json_["featured"], json_["title"],
                           json_["description"], json_["ordering"])

GalleryImage_to_json(self) ==
    Return(remove_null_values(
        [k \in {"ext", "featured", "title", "description", "ordering"} |->
            self.attrs[k]]))

(***************************************************************************)
(* projects.py: Project.License                                            *)
(***************************************************************************)
License_init(id_, name, url) ==
    Instance("License", [id |-> id_, name |-> name, url |-> url])

License_from_json(json_) ==
    IF ~HasKeys(json_, {"id", "name", "url"}) THEN Raise("KeyError")
    ELSE Return(License_init(json_["id"], json_["name"], json_["url"]))

License_to_json(self) ==
    Return([id |-> self.attrs["id"], name |-> self.attrs["name"],
            url |-> self.attrs["url"]])

(***************************************************************************)
(* projects.py: Project.Dependency                                         *)
(***************************************************************************)
\* status: the server's answer to the project lookup the constructor makes
\* for a "project" dependency (unused otherwise)
Dependency_init(dependency_type, id_, dependency_option, status) ==
    IF dependency_type = Str("project")
    THEN LET found == Modrinth_get_project(id_, status, "unset")
         IN IF ~Returned(found.out) THEN found
            ELSE Result(Return(Instance("Project.Dependency",
                     [dependency_type |-> dependency_type,
                      id |-> Project_get_id(found.out.val),
                      dependency_option |-> dependency_option])),
                   found.reqs)
    ELSE Result(Return(Instance("Project.Dependency",
                  [dependency_type |-> dependency_type, id |-> id_,
                   dependency_option |-> dependency_option])), <<>>)

Dependency_to_json(self) ==
    LET result == [version_id |-> None, project_id |-> None,
                   file_name |-> None,
                   dependency_type |-> self.attrs["dependency_option"]]
    IN Return(
         IF self.attrs["dependency_type"] = Str("project")
         THEN [result EXCEPT !["project_id"] = self.attrs["id"]]
         ELSE IF self.attrs["dependency_type"] = Str("version")
         THEN [result EXCEPT !["version_id"] = self.attrs["id"]]
         ELSE result)

\* a from_json that takes the project reference when there is one
Dependency_from_json_project_first(json_, status) ==
    IF ~HasKeys(json_, {"project_id", "version_id", "dependency_type"})
    THEN Result(Raise("KeyError"), <<>>)
    ELSE IF Truthy(json_["version_id"]) /\ ~Truthy(json_["project_id"])
    THEN Dependency_init(Str("version"), json_["version_id"],
                         json_["dependency_type"], status)
    ELSE Dependency_init(Str("project"), json_["project_id"],
                         json_["dependency_type"], status)

Dependency_from_json(json_, status) ==
    IF ~HasKeys(json_, {"project_id", "version_id", "dependency_type"})
    THEN Result(Raise("KeyError"), <<>>)
    ELSE IF Truthy(json_["version_id"])
    THEN Dependency_init(Str("version"), json_["version_id"],
                         json_["dependency_type"], status)
    ELSE Dependency_init(Str("project"), json_["project_id"],
                         json_["dependency_type"], status)

(***************************************************************************)
(* models.py: Dependency.  The constructor looks the project up through    *)
(* the client entry point and reads the found project's id.                *)
(***************************************************************************)
ModelsDependency_init(project_slug, type, version, operator, status) ==
    LET found == Modrinth_get_project(project_slug, status, "unset")
    IN IF ~Returned(found.out) THEN found
       ELSE Result(Return(Instance("models.Dependency",
                [version_id |-> None,
                 project_id |-> Project_get_id(found.out.val),
                 project_slug |-> project_slug, version |-> version,
                 operator |-> operator, file_name |-> None,
                 dependency_type |-> type])), found.reqs)

\* the four JSON values are passed as (project_slug, type, version, operator)
ModelsDependency_from_json(json, status) ==
    IF ~HasKeys(json, {"version_id", "project_id", "file_name",
                       "dependency_type"})
    THEN Result(Raise("KeyError"), <<>>)
    ELSE ModelsDependency_init(json["version_id"], json["project_id"],
                               json["file_name"], json["dependency_type"],
                               status)

ModelsDependency_to_json(self) ==
    Return(remove_null_values(
        [k \in {"version_id", "project_id", "file_name", "dependency_type"}
            |-> self.attrs[k]]))

(***************************************************************************)
(* users.py: User (the JSON side)                                          *)
(***************************************************************************)
\* user_model is a UserModel instance or a JSON dict
User_init(user_model) ==
    IF user_model.tag = "dict"
    THEN LET parsed == UserModel_from_json(user_model.val)
         IN IF Returned(parsed)
            THEN Return(Instance("User", [model |-> parsed.val]))
            ELSE parsed
    ELSE Return(Instance("User", [model |-> user_model.val]))

User_from_json(json_) ==
    LET parsed == UserModel_from_json(json_)
    IN IF Returned(parsed) THEN User_init([tag |-> "obj", val |-> parsed.val])
       ELSE parsed

User_to_json(self) ==
    IF ~HasAttrs(self.attrs["model"], UserModel_fields)
    THEN Raise("AttributeError")
    ELSE Return([k \in UserModel_fields |-> self.attrs["model"].attrs[k]])

(***************************************************************************)
(* projects.py: Project, the read operations                               *)
(***************************************************************************)
\* Project.get_auth: the passed token when truthy, else self.model.auth
Project_get_auth(self, auth) ==
    IF Truthy(auth) THEN Return(auth)
    ELSE IF "auth" \notin DOMAIN self.attrs["model"].attrs
    THEN Raise("AttributeError")
    ELSE Return(self.attrs["model"].attrs["auth"])

\* Project.Version(version_model): a dict is parsed with VersionModel.from_json
Version_init(version_model) ==
    IF version_model.tag = "dict"
    THEN LET parsed == VersionModel_from_json(version_model.val)
         IN IF Returned(parsed)
            THEN Return(Instance("Version", [model |-> parsed.val]))
            ELSE parsed
    ELSE Return(Instance("Version", [model |-> version_model.val]))

\* [ctor(x) for x in response]: the first failing element raises
AllReturned(outs) == \A i \in 1..Len(outs) : Returned(outs[i])
FirstRaised(outs) ==
    outs[CHOOSE i \in 1..Len(outs) :
            /\ ~Returned(outs[i])
            /\ \A j \in 1..(i - 1) : Returned(outs[j])]
Vals(outs) == [i \in 1..Len(outs) |-> outs[i].val]

FilterTypes_keep_all(versions, types) == versions

\* the sublist of versions whose version_type is in types, order kept
RECURSIVE FilterTypes(_, _)
FilterTypes(versions, types) ==
    IF versions = <<>> THEN <<>>
    ELSE LET version == Head(versions)
             rest == FilterTypes(Tail(versions), types)
         IN IF \E i \in 1..Len(types.val) :
                  types.val[i] = version.attrs["model"].attrs["version_type"]
            THEN <<version>> \o rest
            ELSE rest

\* resp: the server's answer, [status, body]
\* util.json_to_query_params: "key=json.dumps(value)&" for each item of
\* the dict, in the order the keys were put into it
FilterKeys == <<"loaders", "game_versions", "featured">>
json_dumps(value) == [tag |-> "json", of |-> value]
json_to_query_params(json_) ==
    LET keys == SelectSeq(FilterKeys, LAMBDA key : key \in DOMAIN json_)
    IN [i \in 1..Len(keys) |->
          [key |-> keys[i], value |-> json_dumps(json_[keys[i]])]]

Project_get_versions(self, loaders, game_versions, featured, types, auth, resp) ==
    LET filters == remove_null_values(
            [loaders |-> loaders, game_versions |-> game_versions,
             featured |-> featured])
        token == Project_get_auth(self, auth)
        req == <<[method |-> "GET", url |-> "/project/{slug}/version",
                  params |-> json_to_query_params(filters),
                  status |-> resp.status]>>
        built == [i \in 1..Len(resp.body) |-> Version_init(Dict(resp.body[i]))]
    IN IF ~Returned(token) THEN Result(token, <<>>)
       ELSE IF resp.status = 404 THEN Result(Raise("NotFoundError"), req)
       ELSE IF ~Ok(resp.status) THEN Result(Raise("InvalidRequestError"), req)
       ELSE IF ~AllReturned(built) THEN Result(FirstRaised(built), req)
       ELSE IF ~Truthy(types) THEN Result(Return(Vals(built)), req)
       ELSE Result(Return(FilterTypes(Vals(built), types)), req)

get_latest_version_last(versions) ==
    IF versions = <<>> THEN Raise("IndexError")
    ELSE Return(versions[Len(versions)])

\* versions[0]
get_latest_version_pick(versions) ==
    IF versions = <<>> THEN Raise("IndexError") ELSE Return(versions[1])

Project_get_latest_version(self, loaders, game_versions, featured, types, auth, resp) ==
    LET versions == Project_get_versions(self, loaders, game_versions,
                                         featured, types, auth, resp)
    IN IF ~Returned(versions.out) THEN versions
       ELSE Result(get_latest_version_pick(versions.out.val), versions.reqs)

\* versions[-1]
get_oldest_version_pick(versions) ==
    IF versions = <<>> THEN Raise("IndexError")
    ELSE Return(versions[Len(versions)])

Project_get_oldest_version(self, loaders, game_versions, featured, types, auth, resp) ==
    LET versions == Project_get_versions(self, loaders, game_versions,
                                         featured, types, auth, resp)
    IN IF ~Returned(versions.out) THEN versions
       ELSE Result(get_oldest_version_pick(versions.out.val), versions.reqs)

\* Project.get_version(id_), a static lookup
Project_get_version(id_, resp) ==
    LET req == <<Request("GET", "/version/{id}", resp.status)>>
    IN IF resp.status = 404 THEN Result(Raise("NotFoundError"), req)
       ELSE IF ~Ok(resp.status) THEN Result(Raise("InvalidRequestError"), req)
       ELSE Result(Version_init(Dict(resp.body)), req)

\* resp.body: the list under the key "projects"
Project_get_dependencies(self, resp) ==
    LET req == <<Request("GET", "/project/{slug}/dependencies", resp.status)>>
        built == [i \in 1..Len(resp.body) |-> Project_init(Dict(resp.body[i]))]
    IN IF resp.status = 404 THEN Result(Raise("NotFoundError"), req)
       ELSE IF ~Ok(resp.status) THEN Result(Raise("InvalidRequestError"), req)
       ELSE IF ~AllReturned(built) THEN Result(FirstRaised(built), req)
       ELSE Result(Return(Vals(built)), req)

(***************************************************************************)
(* projects.py: Project, the write operations.  status is the server's     *)
(* answer; every operation returns True on success.                        *)
(***************************************************************************)
True == Bool(TRUE)

\* one multipart field more; a repeated key replaces the earlier field
MultipartUpdate(files, key, value) ==
    [k \in DOMAIN files \cup {key} |-> IF k = key THEN value ELSE files[k]]

RECURSIVE AddFileFields(_, _)
AddFileFields(files, paths) ==
    IF paths = <<>> THEN files
    ELSE AddFileFields(
            MultipartUpdate(files, remove_file_path(Head(paths).val),
                            [tag |-> "bytes", of |-> Head(paths)]),
            Tail(paths))

DataKey == <<"d", "a", "t", "a">>

\* readable: whether open(file, "rb") finds every listed file
Project_create_version(self, version_model, auth, readable, status) ==
    LET model == Instance("VersionModel",
                   [version_model.attrs EXCEPT
                       !["project_id"] = Project_get_id(self)])
        data == VersionModel_to_json(model)
        paths == model.attrs["files"].val
        files == AddFileFields(
                    [k \in {DataKey} |-> [tag |-> "json", of |-> data.val]],
                    paths)
        token == Project_get_auth(self, auth)
        req == <<[method |-> "POST", url |-> "/version", files |-> files,
                  status |-> status]>>
    IN IF ~Returned(data) THEN Result(data, <<>>)
       ELSE IF paths # <<>> /\ ~readable
       THEN Result(Raise("FileNotFoundError"), <<>>)
       ELSE IF ~Returned(token) THEN Result(token, <<>>)
       ELSE IF status = 401 THEN Result(Raise("NoAuthorizationError"), req)
       ELSE IF ~Ok(status) THEN Result(Raise("InvalidRequestError"), req)
       ELSE Result(Return(True), req)

Project_change_icon(self, file_path, auth, readable, status) ==
    LET token == Project_get_auth(self, auth)
        req == <<[method |-> "PATCH", url |-> "/project/{slug}/icon",
                  params |-> [ext |-> Chars(SplitLast(file_path.val, "."))],
                  status |-> status]>>
    IN IF ~Returned(token) THEN Result(token, <<>>)
       ELSE IF ~readable THEN Result(Raise("FileNotFoundError"), <<>>)
       ELSE IF status = 400 THEN Result(Raise("InvalidParamError"), req)
       ELSE IF ~Ok(status) THEN Result(Raise("InvalidRequestError"), req)
       ELSE Result(Return(True), req)

Project_delete_icon(self, auth, status) ==
    LET token == Project_get_auth(self, auth)
        req == <<Request("DELETE", "/project/{slug}/icon", status)>>
    IN IF ~Returned(token) THEN Result(token, <<>>)
       ELSE IF status = 400 THEN Result(Raise("InvalidParamError"), req)
       ELSE IF status = 401 THEN Result(Raise("NoAuthorizationError"), req)
       ELSE IF ~Ok(status) THEN Result(Raise("InvalidRequestError"), req)
       ELSE Result(Return(True), req)

Project_add_gallery_image(self, image, auth, readable, status) ==
    LET token == Project_get_auth(self, auth)
        params == GalleryImage_to_json(image)
        req == <<[method |-> "POST", url |-> "/project/{slug}/gallery",
                  params |-> params.val, status |-> status]>>
    IN IF ~Returned(token) THEN Result(token, <<>>)
       ELSE IF ~readable THEN Result(Raise("FileNotFoundError"), <<>>)
       ELSE IF status = 401 THEN Result(Raise("NoAuthorizationError"), req)
       ELSE IF status = 404 THEN Result(Raise("NotFoundError"), req)
       ELSE IF ~Ok(status) THEN Result(Raise("InvalidRequestError"), req)
       ELSE Result(Return(True), req)

Project_modify_gallery_image(self, url, featured, title, description, ordering, auth, status) ==
    LET modified_json == remove_null_values(
            [url |-> url, featured |-> featured, title |-> title,
             description |-> description, ordering |-> ordering])
        token == Project_get_auth(self, auth)
        req == <<[method |-> "PATCH", url |-> "/project/{slug}/gallery",
                  params |-> modified_json, status |-> status]>>
    IN IF ~Returned(token) THEN Result(token, <<>>)
       ELSE IF status = 401 THEN Result(Raise("NoAuthorizationError"), req)
       ELSE IF status = 404 THEN Result(Raise("NotFoundError"), req)
       ELSE IF ~Ok(status) THEN Result(Raise("InvalidRequestError"), req)
       ELSE Result(Return(True), req)

\* "-raw" in url, the url held as a sequence of characters
ContainsRaw(url) ==
    \E i \in 1..(Len(url) - 3) :
        <<url[i], url[i + 1], url[i + 2], url[i + 3]>> = <<"-", "r", "a", "w">>

Project_delete_gallery_image(self, url, auth, status) ==
    LET token == Project_get_auth(self, auth)
        req == <<[method |-> "DELETE", url |-> "/project/{slug}/gallery",
                  params |-> [url |-> url], status |-> status]>>
    IN IF ContainsRaw(url.val) THEN Result(Raise("InvalidParamError"), <<>>)
       ELSE IF ~Returned(token) THEN Result(token, <<>>)
       ELSE IF status = 400 THEN Result(Raise("InvalidParamError"), req)
       ELSE IF status = 401 THEN Result(Raise("NoAuthorizationError"), req)
       ELSE IF ~Ok(status) THEN Result(Raise("InvalidRequestError"), req)
       ELSE Result(Return(True), req)

ModifyFields ==
    {"slug", "title", "description", "categories", "client_side",
     "server_side", "body", "additional_categories", "issues_url",
     "source_url", "wiki_url", "discord_url", "license_id", "license_url",
     "status", "requested_status", "moderation_message",
     "moderation_message_body"}

modify_accepts_empty(modified_json) == FALSE

\* "if not modified_json": nothing is left to change
modify_rejects(modified_json) == DOMAIN modified_json = {}

\* fields: the eighteen keyword arguments, None where not passed
Project_modify(self, fields, auth, status) ==
    LET modified_json == remove_null_values(fields)
        token == Project_get_auth(self, auth)
        req == <<[method |-> "PATCH", url |-> "/project/{slug}",
                  data |-> modified_json, status |-> status]>>
    IN IF modify_rejects(modified_json)
       THEN Result(Raise("InvalidParamError"), <<>>)
       ELSE IF ~Returned(token) THEN Result(token, <<>>)
       ELSE IF status = 401 THEN Result(Raise("NoAuthorizationError"), req)
       ELSE IF status = 404 THEN Result(Raise("NotFoundError"), req)
       ELSE IF ~Ok(status) THEN Result(Raise("InvalidRequestError"), req)
       ELSE Result(Return(True), req)

Project_delete(self, auth, status) ==
    LET token == Project_get_auth(self, auth)
        req == <<Request("DELETE", "/project/{slug}", status)>>
    IN IF ~Returned(token) THEN Result(token, <<>>)
       ELSE IF status = 400 THEN Result(Raise("NotFoundError"), req)
       ELSE IF status = 401 THEN Result(Raise("NoAuthorizationError"), req)
       ELSE IF ~Ok(status) THEN Result(Raise("InvalidRequestError"), req)
       ELSE Result(Return(True), req)

(***************************************************************************)
(* projects.py: Project.Dependency.get_version.  A version dependency is   *)
(* fetched by id through the client entry point (Modrinth.get_version:     *)
(* GET /version/{id}); a project dependency is looked up and its latest    *)
(* version taken with no filters.                                          *)
(***************************************************************************)
Modrinth_get_version(id_, resp) ==
    LET req == <<[method |-> "GET", url |-> "/version/{id}", id |-> id_,
                  status |-> resp.status]>>
    IN IF resp.status = 404 THEN Result(Raise("NotFoundError"), req)
       ELSE IF ~Ok(resp.status) THEN Result(Raise("InvalidRequestError"), req)
       ELSE Result(Version_init(Dict(resp.body)), req)

\* a get_version that looks the project up whatever the dependency's type
LookedUpFirst(project, resolved) ==
    IF ~Returned(project.out) THEN project
    ELSE Result(resolved.out, project.reqs \o resolved.reqs)

Dependency_get_version_by_project(self, lookup, resp) ==
    LookedUpFirst(
        Modrinth_get_project(self.attrs["id"], lookup.status, lookup.auth),
        IF self.attrs["dependency_type"] = Str("version")
        THEN Modrinth_get_version(self.attrs["id"], resp)
        ELSE Project_get_latest_version(
                Modrinth_get_project(self.attrs["id"], lookup.status,
                                     lookup.auth).out.val,
                None, None, None, None, None, resp))

\* lookup: the answer to the project lookup, [status, auth]; resp: the
\* answer to the version request that follows
Dependency_get_version(self, lookup, resp) ==
    IF self.attrs["dependency_type"] = Str("version")
    THEN Modrinth_get_version(self.attrs["id"], resp)
    ELSE LET project == Modrinth_get_project(self.attrs["id"], lookup.status,
                                             lookup.auth)
             latest == Project_get_latest_version(project.out.val, None, None,
                                                  None, None, None, resp)
         IN IF ~Returned(project.out) THEN project
            ELSE Result(latest.out, project.reqs \o latest.reqs)

(***************************************************************************)
(* projects.py: Project.File, Version.get_files, Version.get_dependencies  *)
(* and the downloads.  world holds what the network and the disk answer    *)
(* during the call: fetch[url] for a file fetch, locked for the file names *)
(* that cannot be opened for writing, lookup for a project lookup,         *)
(* versions for the versions list of the looked-up project, version[id]    *)
(* for GET /version/{id}, own for the versions list of the project         *)
(* downloaded.                                                             *)
(***************************************************************************)
File_keys == {"hashes", "url", "filename", "primary", "size", "file_type"}

File_init(hashes, url, filename, primary, size, file_type) ==
    Instance("Project.File",
        [hashes |-> hashes, url |-> url, filename |-> filename,
         primary |-> primary, size |-> size, file_type |-> file_type,
         extension |-> Chars(SplitLast(filename.val, "."))])

\* json_ is subscripted with string keys: a dict, or TypeError
File_from_json(json_) ==
    IF json_.tag # "dict" THEN Raise("TypeError")
    ELSE IF ~HasKeys(json_.val, File_keys) THEN Raise("KeyError")
    ELSE Return(File_init(json_.val["hashes"], json_.val["url"],
                          json_.val["filename"], json_.val["primary"],
                          json_.val["size"], json_.val["file_type"]))

Version_get_files(self) ==
    LET files == self.attrs["model"].attrs["files"]
        outs == [i \in 1..Len(files.val) |-> File_from_json(files.val[i])]
    IN IF files.tag # "list" THEN Raise("TypeError")
       ELSE IF AllReturned(outs) THEN Return(Vals(outs))
       ELSE FirstRaised(outs)

\* what a step of a download has done: how it ended, its requests and the
\* files it wrote.  A download returns None.
Progress(out, reqs, files) == [out |-> out, reqs |-> reqs, written |-> files]
Then(first, second) ==
    Progress(second.out, first.reqs \o second.reqs,
             first.written \o second.written)

RECURSIVE Cat(_)
Cat(seqs) == IF seqs = <<>> THEN <<>> ELSE Head(seqs) \o Cat(Tail(seqs))

\* the steps of a loop run in order; the first exception ends the loop
Chain(steps) ==
    LET bad == {i \in 1..Len(steps) : ~Returned(steps[i].out)}
        last == IF bad = {} THEN Len(steps)
                ELSE CHOOSE i \in bad : \A j \in bad : i <= j
    IN Progress(IF bad = {} THEN Return(None) ELSE steps[last].out,
                Cat([i \in 1..last |-> steps[i].reqs]),
                Cat([i \in 1..last |-> steps[i].written]))

\* Project.Dependency.from_json of each declared dependency, in order; the
\* constructor of a project dependency looks the project up
DependenciesMade(jsons, world) ==
    [i \in 1..Len(jsons) |->
        IF jsons[i].tag # "dict" THEN Result(Raise("TypeError"), <<>>)
        ELSE Dependency_from_json(jsons[i].val, world.lookup)]

\* result.append(...) for each; the list is returned when none raised
Appended(made) ==
    LET all == Chain([i \in 1..Len(made) |->
                        Progress(made[i].out, made[i].reqs, <<>>)])
    IN IF ~Returned(all.out) THEN Result(all.out, all.reqs)
       ELSE Result(Return([i \in 1..Len(made) |-> made[i].out.val]),
                   all.reqs)

DependenciesOf(dependencies, world) ==
    IF dependencies.tag # "list" THEN Result(Raise("TypeError"), <<>>)
    ELSE Appended(DependenciesMade(dependencies.val, world))

Version_get_dependencies(self, world) ==
    DependenciesOf(self.attrs["model"].attrs["dependencies"], world)

\* r.get(url): the status of the answer, 0 when no answer comes
FetchStatus(answer) ==
    CASE answer = "down" -> 0
      [] answer = "gone" -> 404
      [] OTHER -> 200

\* .content of the answer: the file's bytes, bytes that do not match the
\* declared hashes, or the body of an error answer
FetchContent(url, answer) ==
    CASE answer = "ok" -> "bytes of " \o url
      [] answer = "corrupt" -> "other bytes of " \o url
      [] OTHER -> "error page of " \o url

Fetch(url, answer) == <<Request("GET", url, FetchStatus(answer))>>

SaveFileVerified(file, world) ==
    LET url == file.attrs["url"].val
        answer == world.fetch[url]
    IN IF answer = "down"
       THEN Progress(Raise("ConnectionError"), Fetch(url, answer), <<>>)
       ELSE IF answer # "ok"
       THEN Progress(Raise("ValueError"), Fetch(url, answer), <<>>)
       ELSE IF file.attrs["filename"] \in world.locked
       THEN Progress(Raise("OSError"), Fetch(url, answer), <<>>)
       ELSE Progress(Return(None), Fetch(url, answer),
                     <<[filename |-> file.attrs["filename"],
                        content |-> FetchContent(url, answer)]>>)

\* file_content = r.get(file.url).content
\* open(file.filename, "wb").write(file_content)
\* No status is tested and no hash compared: whatever content comes is
\* written.
SaveFile(file, world) ==
    LET url == file.attrs["url"].val
        answer == world.fetch[url]
    IN IF answer = "down"
       THEN Progress(Raise("ConnectionError"), Fetch(url, answer), <<>>)
       ELSE IF file.attrs["filename"] \in world.locked
       THEN Progress(Raise("OSError"), Fetch(url, answer), <<>>)
       ELSE Progress(Return(None), Fetch(url, answer),
                     <<[filename |-> file.attrs["filename"],
                        content |-> FetchContent(url, answer)]>>)

\* for file in files
SaveFiles(files, world) ==
    Chain([i \in 1..Len(files) |-> SaveFile(files[i], world)])

\* the answer to the request dep.get_version() ends with
AnswerTo(dep, world) ==
    IF dep.attrs["dependency_type"] = Str("version")
    THEN world.version[dep.attrs["id"].val]
    ELSE world.versions

\* files = dep.get_version().get_files(), then the loop over files
SaveFilesOf(files, world) ==
    IF ~Returned(files) THEN Progress(files, <<>>, <<>>)
    ELSE SaveFiles(files.val, world)

\* resolved: what dep.get_version() gave
SaveResolved(resolved, world) ==
    IF ~Returned(resolved.out)
    THEN Progress(resolved.out, resolved.reqs, <<>>)
    ELSE Then(Progress(Return(None), resolved.reqs, <<>>),
              SaveFilesOf(Version_get_files(resolved.out.val), world))

Resolved(dep, world) ==
    Dependency_get_version(dep, [status |-> world.lookup, auth |-> "None"],
                           AnswerTo(dep, world))

ResolveAndSave(dep, world) == SaveResolved(Resolved(dep, world), world)

SaveNested(saved, nested, world) ==
    IF ~Returned(saved.out) THEN saved
    ELSE IF ~Returned(nested.out)
    THEN Then(saved, Progress(nested.out, nested.reqs, <<>>))
    ELSE Then(Then(saved, Progress(Return(None), nested.reqs, <<>>)),
              Chain([i \in 1..Len(nested.out.val) |->
                       ResolveAndSave(nested.out.val[i], world)]))

SaveResolvedAndItsOwn(resolved, world) ==
    SaveNested(SaveResolved(resolved, world),
               Version_get_dependencies(resolved.out.val, world), world)

SaveDependencyAndItsOwn(dep, world) ==
    SaveResolvedAndItsOwn(Resolved(dep, world), world)

\* the body of "for dep in deps": the resolved version's files are saved;
\* its own dependencies are not asked for
SaveDependency(dep, world) == ResolveAndSave(dep, world)

RequiredOnly(deps) ==
    SelectSeq(deps,
              LAMBDA dep : dep.attrs["dependency_option"] = Str("required"))

\* "for dep in deps": every dependency, dependency_option is not read
Downloaded(deps) == deps

SaveDependencies(deps, world) ==
    Chain([i \in 1..Len(deps) |-> SaveDependency(deps[i], world)])

\* "if recursive:" and what follows; saved: what the loop over the
\* version's own files did; deps: what get_dependencies() gives
DownloadDependencies(saved, recursive, deps, world) ==
    IF ~Returned(saved.out) \/ ~recursive THEN saved
    ELSE IF ~Returned(deps.out)
    THEN Then(saved, Progress(deps.out, deps.reqs, <<>>))
    ELSE Then(Then(saved, Progress(Return(None), deps.reqs, <<>>)),
              SaveDependencies(Downloaded(deps.out.val), world))

\* a download that resolves and saves each dependency as soon as its
\* descriptor is built
BuildThenSave(made, world) ==
    IF ~Returned(made.out) THEN Progress(made.out, made.reqs, <<>>)
    ELSE Then(Progress(Return(None), made.reqs, <<>>),
              ResolveAndSave(made.out.val, world))

Interleaved(saved, recursive, made, world) ==
    IF ~Returned(saved.out) \/ ~recursive THEN saved
    ELSE Then(saved,
              Chain([i \in 1..Len(made) |-> BuildThenSave(made[i], world)]))

Version_download_interleaved(self, recursive, world) ==
    Interleaved(SaveFilesOf(Version_get_files(self), world), recursive,
                DependenciesMade(
                    self.attrs["model"].attrs["dependencies"].val, world),
                world)

Version_download(self, recursive, world) ==
    DownloadDependencies(SaveFilesOf(Version_get_files(self), world),
                         recursive, Version_get_dependencies(self, world),
                         world)

\* a Project.download that leaves the dependencies out
DownloadLatest_own_files(latest, recursive, world) ==
    IF ~Returned(latest.out) THEN Progress(latest.out, latest.reqs, <<>>)
    ELSE Then(Progress(Return(None), latest.reqs, <<>>),
              SaveFilesOf(Version_get_files(latest.out.val), world))

\* latest: what self.get_latest_version() gave.  Project.download then
\* has its own copy of the two loops: files = latest.get_files() and the
\* loop over them, and under "if recursive" deps =
\* latest.get_dependencies() and the loop over them.
DownloadLatest(latest, recursive, world) ==
    IF ~Returned(latest.out) THEN Progress(latest.out, latest.reqs, <<>>)
    ELSE Then(Progress(Return(None), latest.reqs, <<>>),
              DownloadDependencies(
                  SaveFilesOf(Version_get_files(latest.out.val), world),
                  recursive,
                  Version_get_dependencies(latest.out.val, world), world))

Project_download(self, recursive, world) ==
    DownloadLatest(Project_get_latest_version(self, None, None, None, None,
                                              None, world.own),
                   recursive, world)

(***************************************************************************)
(* users.py: User, the operations                                          *)
(***************************************************************************)
\* reading self.model.<name>
User_attr(self, name) ==
    IF name \notin DOMAIN self.attrs["model"].attrs
    THEN Raise("AttributeError")
    ELSE Return(self.attrs["model"].attrs[name])

\* s.split(sep) for a two-character separator <<c, c>>, s a sequence of
\* characters: the parts between the separators
RECURSIVE SplitPairs(_, _, _)
SplitPairs(s, c, part) ==
    IF s = <<>> THEN <<part>>
    ELSE IF Len(s) >= 2 /\ s[1] = c /\ s[2] = c
    THEN <<part>> \o SplitPairs(Tail(Tail(s)), c, <<>>)
    ELSE SplitPairs(Tail(s), c, Append(part, Head(s)))

Notification_fields ==
    {"id", "user_id", "type", "title", "text", "link", "read", "created",
     "actions"}

Notification_init(notification_json) ==
    IF ~HasKeys(notification_json, Notification_fields) THEN Raise("KeyError")
    ELSE LET parts == SplitPairs(notification_json["title"].val, "*", <<>>)
         IN IF Len(parts) < 2 THEN Raise("IndexError")
            ELSE Return(Instance("Notification",
                   [k \in Notification_fields \cup {"project_title"} |->
                       IF k = "project_title" THEN Chars(parts[2])
                       ELSE notification_json[k]]))

User_get_followed_projects(self, resp) ==
    LET username == User_attr(self, "username")
        token == User_attr(self, "auth")
        req == <<Request("GET", "/user/{username}/follows", resp.status)>>
        built == [i \in 1..Len(resp.body) |-> Project_init(Dict(resp.body[i]))]
    IN IF ~Returned(username) THEN Result(username, <<>>)
       ELSE IF ~Returned(token) THEN Result(token, <<>>)
       ELSE IF resp.status = 401 THEN Result(Raise("NoAuthorizationError"), req)
       ELSE IF resp.status = 404 THEN Result(Raise("NotFoundError"), req)
       ELSE IF ~Ok(resp.status) THEN Result(Raise("InvalidRequestError"), req)
       ELSE IF ~AllReturned(built) THEN Result(FirstRaised(built), req)
       ELSE Result(Return(Vals(built)), req)

User_get_notifications(self, resp) ==
    LET username == User_attr(self, "username")
        token == User_attr(self, "auth")
        req == <<Request("GET", "/user/{username}/notifications",
                         resp.status)>>
        built == [i \in 1..Len(resp.body) |-> Notification_init(resp.body[i])]
    IN IF ~Returned(username) THEN Result(username, <<>>)
       ELSE IF ~Returned(token) THEN Result(token, <<>>)
       ELSE IF resp.status = 401 THEN Result(Raise("NoAuthorizationError"), req)
       ELSE IF resp.status = 404 THEN Result(Raise("NotFoundError"), req)
       ELSE IF ~Ok(resp.status) THEN Result(Raise("InvalidRequestError"), req)
       ELSE IF ~AllReturned(built) THEN Result(FirstRaised(built), req)
       ELSE Result(Return(Vals(built)), req)

\* icon: None or a path; readable: whether open(icon, "rb") finds it
User_create_project(self, project_model, icon, readable, status) ==
    LET data == ProjectModel_to_json(project_model)
        token == User_attr(self, "auth")
        req == <<[method |-> "POST", url |-> "/project",
                  files |-> IF Truthy(icon)
                            THEN [data |-> data.val, icon |-> icon]
                            ELSE [data |-> data.val],
                  status |-> status]>>
    IN IF ~Returned(data) THEN Result(data, <<>>)
       ELSE IF Truthy(icon) /\ ~readable
       THEN Result(Raise("FileNotFoundError"), <<>>)
       ELSE IF ~Returned(token) THEN Result(token, <<>>)
       ELSE IF status = 401 THEN Result(Raise("NoAuthorizationError"), req)
       ELSE IF ~Ok(status) THEN Result(Raise("InvalidRequestError"), req)
       ELSE Result(Return(True), req)

User_get_projects_misses_404(status) == FALSE

\* the first status test of get_projects
User_get_projects_not_found(status) == status = 404

User_get_projects(self, resp) ==
    LET id == User_attr(self, "id")
        req == <<Request("GET", "/user/{id}/projects", resp.status)>>
        built == [i \in 1..Len(resp.body) |-> Project_init(Dict(resp.body[i]))]
    IN IF ~Returned(id) THEN Result(id, <<>>)
       ELSE IF User_get_projects_not_found(resp.status)
       THEN Result(Raise("NotFoundError"), req)
       ELSE IF ~Ok(resp.status) THEN Result(Raise("InvalidRequestError"), req)
       ELSE IF ~AllReturned(built) THEN Result(FirstRaised(built), req)
       ELSE Result(Return(Vals(built)), req)

User_follow_project(self, id_, status) ==
    LET token == User_attr(self, "auth")
        req == <<Request("POST", "/project/{id}/follow", status)>>
    IN IF ~Returned(token) THEN Result(token, <<>>)
       ELSE IF status = 400 THEN Result(Raise("NotFoundError"), req)
       ELSE IF status = 401 THEN Result(Raise("NoAuthorizationError"), req)
       ELSE IF ~Ok(status) THEN Result(Raise("InvalidRequestError"), req)
       ELSE Result(Return(True), req)

User_unfollow_project(self, id_, status) ==
    LET token == User_attr(self, "auth")
        req == <<Request("DELETE", "/project/{id}/follow", status)>>
    IN IF ~Returned(token) THEN Result(token, <<>>)
       ELSE IF status = 400 THEN Result(Raise("NotFoundError"), req)
       ELSE IF status = 401 THEN Result(Raise("NoAuthorizationError"), req)
       ELSE IF ~Ok(status) THEN Result(Raise("InvalidRequestError"), req)
       ELSE Result(Return(True), req)

\* the body gets the key "authorization" before it is parsed
User_from_auth(auth, resp) ==
    LET req == <<Request("GET", "/user", resp.status)>>
        response == [k \in DOMAIN resp.body \cup {"authorization"} |->
                        IF k = "authorization" THEN auth ELSE resp.body[k]]
    IN IF resp.status = 401 THEN Result(Raise("InvalidParamError"), req)
       ELSE IF ~Ok(resp.status) THEN Result(Raise("InvalidRequestError"), req)
       ELSE Result(User_from_json(response), req)

User_from_id(id_, resp) ==
    LET req == <<Request("GET", "/user/{id}", resp.status)>>
    IN IF resp.status = 404 THEN Result(Raise("NotFoundError"), req)
       ELSE IF ~Ok(resp.status) THEN Result(Raise("InvalidRequestError"), req)
       ELSE Result(User_from_json(resp.body), req)

(***************************************************************************)
(* Dispatch of to_json / from_json on the class.  status is the server's   *)
(* answer to the lookup a Dependency constructor may make.                 *)
(***************************************************************************)
to_json(self) ==
    CASE self.type = "ProjectModel" -> ProjectModel_to_json(self)
      [] self.type = "SearchResultModel" -> SearchResultModel_to_json(self)
      [] self.type = "VersionModel" -> VersionModel_to_json(self)
      [] self.type = "UserModel" -> UserModel_to_json(self)
      [] self.type = "models.Dependency" -> ModelsDependency_to_json(self)
      [] self.type = "GalleryImage" -> GalleryImage_to_json(self)
      [] self.type = "License" -> License_to_json(self)
      [] self.type = "Project.Dependency" -> Dependency_to_json(self)
      [] self.type = "User" -> User_to_json(self)

from_json(type, json, status) ==
    CASE type = "ProjectModel" -> Result(ProjectModel_from_json(json), <<>>)
      [] type = "SearchResultModel" ->
             Result(SearchResultModel_from_json(json), <<>>)
      [] type = "VersionModel" -> Result(VersionModel_from_json(json), <<>>)
      [] type = "UserModel" -> Result(UserModel_from_json(json), <<>>)
      [] type = "models.Dependency" -> ModelsDependency_from_json(json, status)
      [] type = "GalleryImage" -> Result(GalleryImage_from_json(json), <<>>)
      [] type = "License" -> Result(License_from_json(json), <<>>)
      [] type = "Project.Dependency" -> Dependency_from_json(json, status)
      [] type = "User" -> Result(User_from_json(json), <<>>)

(***************************************************************************)
(* Argument values.  A parameter named k gets the value Str(k), or None    *)
(* when the caller leaves it out; so every field has its own value.        *)
(***************************************************************************)
V(k) == Str(k)
Opt(k, nulls) == IF k \in nulls THEN None ELSE V(k)

ProjectModel_optional ==
    {"additional_categories", "issues_url", "source_url", "wiki_url",
     "discord_url", "license_url"}
VersionModel_optional == {"changelog", "status", "requested_status"}
UserModel_optional ==
    {"name", "email", "bio", "payout_data", "github_id", "badges"}
SearchResultModel_optional == {"icon_url", "color", "featured_gallery"}
DependencyOptions == {Str("required"), Str("optional"), Str("incompatible")}
DependencyTypes == {Str("project"), Str("version"), Str("embedded")}
VersionId == Str("IIJJKKLL")
FilePaths == {Chars(<<"i", "c", "o", "n", ".", "p", "n", "g">>),
              Chars(<<"a", ".", "b", ".", "j", "p", "g">>)}

\* API bodies that from_json may be given
ApiUser(nulls) == [k \in UserModel_fields |-> Opt(k, nulls)]
ApiDependency(version_id, project_id, option) ==
    [version_id |-> version_id, project_id |-> project_id,
     file_name |-> None, dependency_type |-> option]

(***************************************************************************)
(* The handles the operations are called on, and what the server answers.  *)
(***************************************************************************)
MaxVersions == 3
MaxChanged == 2

Obj(instance) == [tag |-> "obj", val |-> instance]
Auths == {None, Str("token")}
SelfProjects ==
    {WithAuthAttr(Project_init(Dict(ApiProject({}))).val, a) : a \in AuthStates}
\* a User wraps a UserModel, or whatever UserModel.from_json made of a body
SelfUsers ==
    {WithAuthAttr(User_init(Obj(UserModel_init(ApiUser({})))).val, a) :
        a \in AuthStates}
    \cup {WithAuthAttr(User_from_json(ApiUser({})).val, a) : a \in AuthStates}

VersionTypes == {"release", "beta", "alpha"}

\* the body of one version; n numbers the versions in publication order
ApiVersion(n, type) ==
    [name |-> Str("v" \o ToString(n)), version_number |-> Str(ToString(n)),
     dependencies |-> List(<<>>), game_versions |-> List(<<Str("1.20")>>),
     version_type |-> Str(type), loaders |-> List(<<Str("fabric")>>),
     featured |-> Bool(FALSE), files |-> List(<<>>), changelog |-> None,
     status |-> Str("listed"), requested_status |-> None,
     id |-> Str("id" \o ToString(n)), project_id |-> ProjectId,
     author_id |-> Str("author"), date_published |-> Str("2023-01-01"),
     downloads |-> Num(n)]

ApiDocs ==
    {[type |-> "ProjectModel", json |-> ApiProject(n)] :
        n \in {{}, ProjectModel_optional}}
    \cup {[type |-> t, json |-> ApiUser(n)] :
        t \in {"UserModel", "User"}, n \in {{}, UserModel_optional}}
    \cup {[type |-> "License", json |-> ApiLicense(n)] :
        n \in {{}, {"license_url"}}}
    \cup {[type |-> "GalleryImage",
           json |-> [url |-> p, featured |-> Bool(TRUE), title |-> V("title"),
                     description |-> None, ordering |-> Num(0)]] :
        p \in FilePaths}
    \cup {[type |-> "Project.Dependency", json |-> ApiDependency(v, p, o)] :
        v \in {None, Str(""), VersionId},
        p \in {None, ProjectId, Str("ghost")},
        o \in DependencyOptions}
    \cup {[type |-> "VersionModel", json |-> ApiVersion(1, type)] :
        type \in VersionTypes}

\* the server lists versions newest first
VersionLists ==
    UNION {{[i \in 1..n |-> ApiVersion(n + 1 - i, types[i])] :
              types \in [1..n -> VersionTypes]} : n \in 0..MaxVersions}

\* content: raw_response.content; body: json.loads of it, read on success
ErrorContents == {"error a", "error b"}
Failure(status, content) ==
    [status |-> status, body |-> <<>>, content |-> content]
Failures ==
    {Failure(status, content) :
        status \in Statuses \ {200}, content \in ErrorContents}
Success(body) == [status |-> 200, body |-> body, content |-> "json"]

VersionsResponses == Failures \cup {Success(body) : body \in VersionLists}
VersionResponses ==
    Failures \cup {Success(ApiVersion(1, type)) : type \in VersionTypes}
ProjectsResponses ==
    Failures \cup {Success(body) :
        body \in {<<>>, <<ApiProject({})>>,
                  <<ApiProject({}), ApiProject(ProjectModel_optional)>>}}
UserResponses ==
    Failures \cup {Success(ApiUser(nulls)) : nulls \in {{}, UserModel_optional}}

ApiNotification(title) ==
    [k \in Notification_fields |-> IF k = "title" THEN title ELSE V(k)]
NotificationsResponses ==
    Failures \cup {Success(body) :
        body \in {<<>>,
                  <<ApiNotification(Chars(<<"*", "*", "m", "*", "*", "u">>))>>,
                  <<ApiNotification(Chars(<<"h", "i">>))>>}}

TypesFilters ==
    {None, List(<<>>), List(<<Str("release")>>), List(<<Str("beta")>>),
     List(<<Str("alpha")>>), List(<<Str("release"), Str("alpha")>>)}
LoadersFilters == {None, List(<<Str("fabric")>>)}
GameVersionsFilters == {None, List(<<Str("1.20")>>)}
FeaturedFilters == {None, Bool(TRUE), Bool(FALSE)}

GalleryUrls ==
    {Chars(<<"c", "d", "n", "/", "a">>),
     Chars(<<"c", "d", "n", "-", "r", "a", "w", "/", "a">>)}
VersionFiles ==
    {List(<<>>), List(<<Chars(<<"a", "/", "m">>)>>),
     List(<<Chars(<<"a", "/", "m">>), Chars(<<"b", "/", "m">>)>>),
     List(<<Chars(<<"m">>), Chars(<<"d", "a", "t", "a">>)>>)}

(***************************************************************************)
(* The catalogue the downloads run against.  Version V is the one          *)
(* downloaded; it may depend on version W and on the catalogue's project,  *)
(* whose latest version is PL.  W depends on X, or back on V (a cycle);    *)
(* PL depends on X.                                                        *)
(***************************************************************************)
MaxFaults == 1

ApiFile(filename, url) ==
    [hashes |-> Dict([sha1 |-> Str("sha1 of bytes of " \o url)]),
     url |-> Str(url), filename |-> Chars(filename), primary |-> Bool(TRUE),
     size |-> Num(1), file_type |-> None]
Jar == <<".", "j", "a", "r">>
ModJar == ApiFile(<<"m", "o", "d">> \o Jar, "cdn/mod.jar")
LibJar == ApiFile(<<"l", "i", "b">> \o Jar, "cdn/lib.jar")
WJar == ApiFile(<<"w">> \o Jar, "cdn/w.jar")
PJar == ApiFile(<<"p">> \o Jar, "cdn/p.jar")
XJar == ApiFile(<<"x">> \o Jar, "cdn/x.jar")
CatalogueFiles == {ModJar, LibJar, WJar, PJar, XJar}
Urls == {file.url.val : file \in CatalogueFiles}
FileAt(url) == CHOOSE file \in CatalogueFiles : file.url.val = url

FileLists ==
    {<<>>, <<Dict(ModJar)>>, <<Dict(ModJar), Dict(LibJar)>>,
     <<Dict(LibJar), Dict(ModJar)>>}

OnVersion(id, option) == Dict(ApiDependency(Str(id), None, Str(option)))
OnProject(option) == Dict(ApiDependency(None, ProjectId, Str(option)))
DependencyLists ==
    {<<>>, <<OnVersion("W", "required")>>, <<OnProject("required")>>,
     <<OnVersion("W", "optional")>>, <<OnProject("incompatible")>>,
     <<OnVersion("W", "required"), OnProject("required")>>,
     <<OnProject("optional"), OnVersion("W", "incompatible")>>}

CatalogueVersion(id, files, deps) ==
    [ApiVersion(1, "release") EXCEPT
        !["id"] = Str(id), !["name"] = Str(id), !["files"] = List(files),
        !["dependencies"] = List(deps)]
Graphs == {"chain", "cycle"}
VersionW(graph) ==
    CatalogueVersion("W", <<Dict(WJar)>>,
        <<OnVersion(IF graph = "cycle" THEN "V" ELSE "X", "required")>>)
VersionX == CatalogueVersion("X", <<Dict(XJar)>>, <<>>)
VersionPL == CatalogueVersion("PL", <<Dict(PJar)>>,
                              <<OnVersion("X", "required")>>)

\* What can go wrong during a download: a fetch answered with other bytes,
\* with 404 or not at all, a file that cannot be opened for writing, a
\* lookup answered with an error or an empty list.
Fault(kind, at, how) == [kind |-> kind, at |-> at, how |-> how]
\* the files a download can come to: X is behind a dependency of a
\* dependency
WithinReach == Urls \ {XJar.url.val}
Faults ==
    {Fault("fetch", url, how) :
        url \in WithinReach, how \in {"corrupt", "gone", "down"}}
    \cup {Fault("write", url, "locked") : url \in WithinReach}
    \cup {Fault(kind, "", how) :
            kind \in {"lookup", "version"}, how \in {"404", "500"}}
    \cup {Fault(kind, "", how) :
            kind \in {"versions", "own"}, how \in {"404", "500", "empty"}}

\* the sets of at most n faults, no two at the same place
RECURSIVE FaultSets(_)
FaultSets(n) ==
    IF n = 0 THEN {{}}
    ELSE LET fewer == FaultSets(n - 1)
             Free(set) == {g \in Faults : \A h \in set :
                              g.kind # h.kind \/ g.at # h.at}
         IN fewer \cup
            UNION {{set \cup {f} : f \in Free(set)} : set \in fewer}

How(faults, kind, at) ==
    LET here == {f \in faults : f.kind = kind /\ f.at = at}
    IN IF here = {} THEN "ok" ELSE (CHOOSE f \in here : TRUE).how
StatusOf(how) ==
    CASE how = "404" -> 404
      [] how = "500" -> 500
      [] OTHER -> 200
Answer(how, body) ==
    IF how \in {"404", "500"} THEN Failure(StatusOf(how), "error a")
    ELSE Success(body)
ListAnswer(how, versions) ==
    IF how = "empty" THEN Success(<<>>) ELSE Answer(how, versions)

World(faults, graph, self) ==
    [fetch |-> [url \in Urls |-> How(faults, "fetch", url)],
     locked |-> {FileAt(url).filename :
                    url \in {u \in Urls : How(faults, "write", u) # "ok"}},
     lookup |-> StatusOf(How(faults, "lookup", "")),
     versions |-> ListAnswer(How(faults, "versions", ""), <<VersionPL>>),
     version |->
        [id \in {"V", "W", "X"} |->
            Answer(How(faults, "version", ""),
                   CASE id = "V" -> self
                     [] id = "W" -> VersionW(graph)
                     [] OTHER -> VersionX)],
     own |-> ListAnswer(How(faults, "own", ""), <<self>>)]

(***************************************************************************)
(* State                                                                   *)
(***************************************************************************)
Init ==
    /\ op = "idle"
    /\ args = NoArgs
    /\ outcome = NoOutcome
    /\ requests = <<>>
    /\ obj = NoObj
    /\ doc = NoDoc
    /\ written = <<>>

\* The library keeps nothing between calls: a call starts from the idle
\* state, and Finish drops what the last call left.
Idle == op = "idle"

\* what a constructor call leaves: the new object is the one at hand
Built(a, res) ==
    /\ args' = a
    /\ outcome' = res.out
    /\ requests' = res.reqs
    /\ obj' = IF Returned(res.out) THEN res.out.val ELSE NoObj
    /\ doc' = NoDoc
    /\ written' = <<>>

NewProjectModel ==
    /\ Idle
    /\ \E nulls \in SUBSET ProjectModel_optional,
       license_id \in {V("license_id"), Dict(ApiLicense({}))} :
        /\ op' = "ProjectModel"
        /\ Built([nulls |-> nulls, license_id |-> license_id],
            Result(Return(ProjectModel_init(
                V("slug"), V("title"), V("description"), V("categories"),
                V("client_side"), V("server_side"), V("body"), license_id,
                V("project_type"), Opt("additional_categories", nulls),
                Opt("issues_url", nulls), Opt("source_url", nulls),
                Opt("wiki_url", nulls), Opt("discord_url", nulls),
                Opt("license_url", nulls))), <<>>))

NewSearchResultModel ==
    /\ Idle
    /\ \E nulls \in SUBSET SearchResultModel_optional :
        /\ op' = "SearchResultModel"
        /\ Built([nulls |-> nulls],
            Result(Return(SearchResultModel_init(
                [k \in SearchResultModel_fields |-> Opt(k, nulls)])), <<>>))

NewVersionModel ==
    /\ Idle
    /\ \E nulls \in SUBSET VersionModel_optional :
        /\ op' = "VersionModel"
        /\ Built([nulls |-> nulls],
            Result(Return(VersionModel_init(
                V("name"), V("version_number"), V("dependencies"),
                V("game_versions"), V("version_type"), V("loaders"),
                V("featured"), V("file_parts"), Opt("changelog", nulls),
                Opt("status", nulls), Opt("requested_status", nulls))), <<>>))

NewUserModel ==
    /\ Idle
    /\ \E nulls \in SUBSET UserModel_optional :
        /\ op' = "UserModel"
        /\ Built([nulls |-> nulls],
            Result(Return(UserModel_init(
                [k \in UserModel_fields |-> Opt(k, nulls)])), <<>>))

NewModelsDependency ==
    /\ Idle
    /\ \E project_slug \in {ProjectSlug, Str("ghost")} :
      \E status \in LookupStatuses(project_slug) :
        /\ op' = "models.Dependency"
        /\ Built([project_slug |-> project_slug, status |-> status],
            ModelsDependency_init(project_slug, Str("required"), Str(""),
                                  Str(""), status))

NewGalleryImage ==
    /\ Idle
    /\ \E file_path \in FilePaths, featured \in {Bool(TRUE), Bool(FALSE), None},
       nulls \in SUBSET {"title", "description", "ordering"} :
        /\ op' = "GalleryImage"
        /\ Built([file_path |-> file_path, featured |-> featured, nulls |-> nulls],
            Result(GalleryImage_init(file_path, featured, Opt("title", nulls),
                     Opt("description", nulls),
                     IF "ordering" \in nulls THEN None ELSE Num(0)), <<>>))

NewLicense ==
    /\ Idle
    /\ \E nulls \in SUBSET {"url"} :
        /\ op' = "License"
        /\ Built([nulls |-> nulls],
            Result(Return(License_init(V("id"), V("name"), Opt("url", nulls))),
                   <<>>))

NewDependency ==
    /\ Idle
    /\ \E dependency_type \in DependencyTypes,
       id_ \in {ProjectSlug, ProjectId, VersionId, Str("ghost")},
       dependency_option \in DependencyOptions :
      \E status \in LookupStatuses(id_) :
        /\ op' = "Project.Dependency"
        /\ Built([dependency_type |-> dependency_type, id_ |-> id_,
             dependency_option |-> dependency_option, status |-> status],
            Dependency_init(dependency_type, id_, dependency_option, status))

NewUser ==
    /\ Idle
    /\ \/ \E nulls \in SUBSET UserModel_optional :
           /\ op' = "User"
           /\ Built([nulls |-> nulls, from |-> "UserModel"],
                Result(User_init([tag |-> "obj",
                    val |-> UserModel_init(
                        [k \in UserModel_fields |-> Opt(k, nulls)])]), <<>>))
       \/ \E nulls \in {{}, UserModel_optional} :
           /\ op' = "User"
           /\ Built([nulls |-> nulls, from |-> "dict"],
                Result(User_init(Dict(ApiUser(nulls))), <<>>))

\* an API body arrives
Receive ==
    /\ Idle
    /\ \E d \in ApiDocs :
        /\ op' = "receive"
        /\ args' = NoArgs
        /\ outcome' = NoOutcome
        /\ requests' = <<>>
        /\ obj' = NoObj
        /\ doc' = [type |-> d.type, json |-> d.json, of |-> "api"]
        /\ written' = <<>>

\* obj.to_json(): the result becomes the document at hand
ToJson ==
    /\ obj # NoObj
    /\ doc = NoDoc \/ (doc.of = "api" /\ op = "from_json")
    /\ op' = "to_json"
    /\ args' = NoArgs
    /\ outcome' = to_json(obj)
    /\ requests' = <<>>
    /\ doc' = IF Returned(outcome')
              THEN [type |-> obj.type, json |-> outcome'.val, of |-> "to_json"]
              ELSE NoDoc
    /\ UNCHANGED <<obj, written>>

\* <class of doc>.from_json(doc).  Parsing an API body makes the parsed
\* object the one at hand; parsing the to_json of the object at hand keeps
\* that object beside the result.
FromJson ==
    /\ doc # NoDoc
    /\ op \in {"to_json", "receive"}
    /\ \E status \in Statuses :
         LET res == from_json(doc.type, doc.json, status)
         IN /\ op' = "from_json"
            /\ args' = [status |-> status]
            /\ outcome' = res.out
            /\ requests' = res.reqs
            /\ obj' = IF doc.of = "to_json" THEN obj
                      ELSE IF Returned(res.out) THEN res.out.val ELSE NoObj
    /\ UNCHANGED <<doc, written>>

(***************************************************************************)
(* The operations as calls.  args keeps the arguments and the server's     *)
(* answer, so that the outcome can be read against them.                   *)
(***************************************************************************)
Called(a, res) ==
    /\ args' = a
    /\ outcome' = res.out
    /\ requests' = res.reqs
    /\ obj' = NoObj
    /\ doc' = NoDoc
    /\ written' = <<>>

GetVersions ==
    /\ Idle
    /\ \E self \in SelfProjects, loaders \in LoadersFilters,
       game_versions \in GameVersionsFilters, featured \in FeaturedFilters,
       types \in TypesFilters, auth \in Auths, resp \in VersionsResponses :
        /\ op' = "Project.get_versions"
        /\ Called([self |-> self, loaders |-> loaders,
                   game_versions |-> game_versions, featured |-> featured,
                   types |-> types, auth |-> auth, resp |-> resp],
                  Project_get_versions(self, loaders, game_versions, featured,
                                       types, auth, resp))

GetLatestVersion ==
    /\ Idle
    /\ \E self \in SelfProjects, loaders \in LoadersFilters,
       game_versions \in GameVersionsFilters, featured \in FeaturedFilters,
       types \in TypesFilters, auth \in Auths, resp \in VersionsResponses :
        /\ op' = "Project.get_latest_version"
        /\ Called([self |-> self, loaders |-> loaders,
                   game_versions |-> game_versions, featured |-> featured,
                   types |-> types, auth |-> auth, resp |-> resp],
                  Project_get_latest_version(self, loaders, game_versions,
                                             featured, types, auth, resp))

GetOldestVersion ==
    /\ Idle
    /\ \E self \in SelfProjects, loaders \in LoadersFilters,
       game_versions \in GameVersionsFilters, featured \in FeaturedFilters,
       types \in TypesFilters, auth \in Auths, resp \in VersionsResponses :
        /\ op' = "Project.get_oldest_version"
        /\ Called([self |-> self, loaders |-> loaders,
                   game_versions |-> game_versions, featured |-> featured,
                   types |-> types, auth |-> auth, resp |-> resp],
                  Project_get_oldest_version(self, loaders, game_versions,
                                             featured, types, auth, resp))

GetVersion ==
    /\ Idle
    /\ \E id_ \in {VersionId, Str("ghost")}, resp \in VersionResponses :
        /\ op' = "Project.get_version"
        /\ Called([id_ |-> id_, resp |-> resp], Project_get_version(id_, resp))

GetDependencies ==
    /\ Idle
    /\ \E self \in SelfProjects, resp \in ProjectsResponses :
        /\ op' = "Project.get_dependencies"
        /\ Called([self |-> self, resp |-> resp],
                  Project_get_dependencies(self, resp))

CreateVersion ==
    /\ Idle
    /\ \E self \in SelfProjects, files \in VersionFiles,
       nulls \in SUBSET VersionModel_optional, auth \in Auths,
       readable \in BOOLEAN, status \in WriteStatuses :
        LET version_model == VersionModel_init(
                V("name"), V("version_number"), List(<<>>),
                List(<<Str("1.20")>>), Str("release"),
                List(<<Str("fabric")>>), Bool(TRUE), files,
                Opt("changelog", nulls), Opt("status", nulls),
                Opt("requested_status", nulls))
        IN /\ op' = "Project.create_version"
           /\ Called([self |-> self, version_model |-> version_model,
                      auth |-> auth, readable |-> readable,
                      status |-> status],
                     Project_create_version(self, version_model, auth,
                                            readable, status))

ChangeIcon ==
    /\ Idle
    /\ \E self \in SelfProjects, file_path \in FilePaths, auth \in Auths,
       readable \in BOOLEAN, status \in WriteStatuses :
        /\ op' = "Project.change_icon"
        /\ Called([self |-> self, file_path |-> file_path, auth |-> auth,
                   readable |-> readable, status |-> status],
                  Project_change_icon(self, file_path, auth, readable, status))

DeleteIcon ==
    /\ Idle
    /\ \E self \in SelfProjects, auth \in Auths, status \in WriteStatuses :
        /\ op' = "Project.delete_icon"
        /\ Called([self |-> self, auth |-> auth, status |-> status],
                  Project_delete_icon(self, auth, status))

AddGalleryImage ==
    /\ Idle
    /\ \E self \in SelfProjects, file_path \in FilePaths,
       nulls \in SUBSET {"title", "description"}, auth \in Auths,
       readable \in BOOLEAN, status \in WriteStatuses :
        LET image == GalleryImage_init(file_path, Bool(TRUE),
                        Opt("title", nulls), Opt("description", nulls),
                        Num(0)).val
        IN /\ op' = "Project.add_gallery_image"
           /\ Called([self |-> self, image |-> image, auth |-> auth,
                      readable |-> readable, status |-> status],
                     Project_add_gallery_image(self, image, auth, readable,
                                               status))

ModifyGalleryImage ==
    /\ Idle
    /\ \E self \in SelfProjects, url \in GalleryUrls,
       featured \in {None, Bool(TRUE)}, title \in {None, V("title")},
       description \in {None, V("description")},
       ordering \in {None, Num(1)}, auth \in Auths, status \in WriteStatuses :
        /\ op' = "Project.modify_gallery_image"
        /\ Called([self |-> self, url |-> url, featured |-> featured,
                   title |-> title, description |-> description,
                   ordering |-> ordering, auth |-> auth, status |-> status],
                  Project_modify_gallery_image(self, url, featured, title,
                      description, ordering, auth, status))

DeleteGalleryImage ==
    /\ Idle
    /\ \E self \in SelfProjects, url \in GalleryUrls, auth \in Auths,
       status \in WriteStatuses :
        /\ op' = "Project.delete_gallery_image"
        /\ Called([self |-> self, url |-> url, auth |-> auth,
                   status |-> status],
                  Project_delete_gallery_image(self, url, auth, status))

\* the sets of at most n of the eighteen fields
RECURSIVE FieldSets(_)
FieldSets(n) ==
    IF n = 0 THEN {{}}
    ELSE LET fewer == FieldSets(n - 1)
         IN fewer \cup {set \cup {k} : set \in fewer, k \in ModifyFields}

\* an empty value for a field: an empty list for the list fields, an empty
\* string for the others
Empty(k) ==
    IF k \in {"categories", "additional_categories"} THEN List(<<>>)
    ELSE Str("")

\* at most MaxChanged of the eighteen fields are passed, with values or
\* with empty values
Modify ==
    /\ Idle
    /\ \E self \in SelfProjects, changed \in FieldSets(MaxChanged),
       auth \in Auths, status \in WriteStatuses :
       \E emptied \in {{}, changed} :
        LET fields == [k \in ModifyFields |->
                          IF k \in emptied THEN Empty(k)
                          ELSE IF k \in changed THEN V(k) ELSE None]
        IN /\ op' = "Project.modify"
           /\ Called([self |-> self, fields |-> fields, auth |-> auth,
                      status |-> status],
                     Project_modify(self, fields, auth, status))

Delete ==
    /\ Idle
    /\ \E self \in SelfProjects, auth \in Auths, status \in WriteStatuses :
        /\ op' = "Project.delete"
        /\ Called([self |-> self, auth |-> auth, status |-> status],
                  Project_delete(self, auth, status))

\* the dependency was built by the constructor or by from_json; lookup is
\* the answer to the project lookup (made for every type but "version")
DependencyGetVersion ==
    /\ Idle
    /\ \/ \E id_ \in {ProjectId, VersionId}, resp \in VersionResponses :
           LET self == Instance("Project.Dependency",
                         [dependency_type |-> Str("version"), id |-> id_,
                          dependency_option |-> Str("required")])
               lookup == [status |-> 200, auth |-> "unset"]
           IN /\ op' = "Project.Dependency.get_version"
              /\ Called([self |-> self, lookup |-> lookup, resp |-> resp],
                        Dependency_get_version(self, lookup, resp))
       \/ \E dependency_type \in DependencyTypes \ {Str("version")},
             id_ \in {ProjectId, VersionId}, auth \in {"unset", "None"},
             resp \in VersionsResponses :
           \E status \in LookupStatuses(id_) :
             LET self == Instance("Project.Dependency",
                           [dependency_type |-> dependency_type, id |-> id_,
                            dependency_option |-> Str("required")])
                 lookup == [status |-> status, auth |-> auth]
             IN /\ op' = "Project.Dependency.get_version"
                /\ Called([self |-> self, lookup |-> lookup, resp |-> resp],
                          Dependency_get_version(self, lookup, resp))

GetFollowedProjects ==
    /\ Idle
    /\ \E self \in SelfUsers, resp \in ProjectsResponses :
        /\ op' = "User.get_followed_projects"
        /\ Called([self |-> self, resp |-> resp],
                  User_get_followed_projects(self, resp))

GetNotifications ==
    /\ Idle
    /\ \E self \in SelfUsers, resp \in NotificationsResponses :
        /\ op' = "User.get_notifications"
        /\ Called([self |-> self, resp |-> resp],
                  User_get_notifications(self, resp))

CreateProject ==
    /\ Idle
    /\ \E self \in SelfUsers, license_id \in {V("license_id"),
                                           Dict(ApiLicense({}))},
       icon \in {None} \cup FilePaths, readable \in BOOLEAN,
       status \in WriteStatuses :
        LET project_model == ProjectModel_init(
                V("slug"), V("title"), V("description"), V("categories"),
                V("client_side"), V("server_side"), V("body"), license_id,
                V("project_type"), None, None, None, None, None, None)
        IN /\ op' = "User.create_project"
           /\ Called([self |-> self, project_model |-> project_model,
                      icon |-> icon, readable |-> readable,
                      status |-> status],
                     User_create_project(self, project_model, icon, readable,
                                         status))

GetProjects ==
    /\ Idle
    /\ \E self \in SelfUsers, resp \in ProjectsResponses :
        /\ op' = "User.get_projects"
        /\ Called([self |-> self, resp |-> resp], User_get_projects(self, resp))

FollowProject ==
    /\ Idle
    /\ \E self \in SelfUsers, id_ \in {ProjectId, Str("ghost")},
       status \in WriteStatuses :
        /\ op' = "User.follow_project"
        /\ Called([self |-> self, id_ |-> id_, status |-> status],
                  User_follow_project(self, id_, status))

UnfollowProject ==
    /\ Idle
    /\ \E self \in SelfUsers, id_ \in {ProjectId, Str("ghost")},
       status \in WriteStatuses :
        /\ op' = "User.unfollow_project"
        /\ Called([self |-> self, id_ |-> id_, status |-> status],
                  User_unfollow_project(self, id_, status))

FromAuth ==
    /\ Idle
    /\ \E auth \in Auths, resp \in UserResponses :
        /\ op' = "User.from_auth"
        /\ Called([auth |-> auth, resp |-> resp], User_from_auth(auth, resp))

FromId ==
    /\ Idle
    /\ \E id_ \in {Str("user"), Str("ghost")}, resp \in UserResponses :
        /\ op' = "User.from_id"
        /\ Called([id_ |-> id_, resp |-> resp], User_from_id(id_, resp))

\* what a download leaves: its requests and the files it wrote
Did(a, done) ==
    /\ args' = a
    /\ outcome' = done.out
    /\ requests' = done.reqs
    /\ written' = done.written
    /\ obj' = NoObj
    /\ doc' = NoDoc

VersionDownload ==
    /\ Idle
    /\ \E files \in FileLists, deps \in DependencyLists,
          recursive \in BOOLEAN, graph \in Graphs,
          faults \in FaultSets(MaxFaults) :
         LET body == CatalogueVersion("V", files, deps)
             self == Version_init(Dict(body)).val
             world == World(faults, graph, body)
         IN /\ op' = "Version.download"
            /\ Did([self |-> self, recursive |-> recursive, world |-> world,
                    faults |-> faults, version |-> body],
                   Version_download(self, recursive, world))

ProjectDownload ==
    /\ Idle
    /\ \E self \in SelfProjects, files \in FileLists,
          deps \in DependencyLists, recursive \in BOOLEAN, graph \in Graphs,
          faults \in FaultSets(MaxFaults) :
         LET body == CatalogueVersion("V", files, deps)
             world == World(faults, graph, body)
         IN /\ op' = "Project.download"
            /\ Did([self |-> self, recursive |-> recursive, world |-> world,
                    faults |-> faults, version |-> body],
                   Project_download(self, recursive, world))

Finish ==
    /\ ~Idle
    /\ op' = "idle"
    /\ args' = NoArgs
    /\ outcome' = NoOutcome
    /\ requests' = <<>>
    /\ obj' = NoObj
    /\ doc' = NoDoc
    /\ written' = <<>>

Next ==
    \/ NewProjectModel
    \/ NewSearchResultModel
    \/ NewVersionModel
    \/ NewUserModel
    \/ NewModelsDependency
    \/ NewGalleryImage
    \/ NewLicense
    \/ NewDependency
    \/ NewUser
    \/ Receive
    \/ ToJson
    \/ FromJson
    \/ GetVersions
    \/ GetLatestVersion
    \/ GetOldestVersion
    \/ GetVersion
    \/ GetDependencies
    \/ CreateVersion
    \/ ChangeIcon
    \/ DeleteIcon
    \/ AddGalleryImage
    \/ ModifyGalleryImage
    \/ DeleteGalleryImage
    \/ Modify
    \/ Delete
    \/ DependencyGetVersion
    \/ GetFollowedProjects
    \/ GetNotifications
    \/ CreateProject
    \/ GetProjects
    \/ FollowProject
    \/ UnfollowProject
    \/ FromAuth
    \/ FromId
    \/ VersionDownload
    \/ ProjectDownload
    \/ Finish

Spec == Init /\ [][Next]_vars

(***************************************************************************)
(* Properties                                                              *)
(***************************************************************************)
NonNullKeys(json) == {k \in DOMAIN json : ~IsNone(json[k])}

\* C1: the dict any to_json returns holds no key whose value is None: an
\* unset field is absent, never an explicit null.
C1_ToJsonOmitsNulls ==
    (op = "to_json" /\ Returned(outcome))
        => NonNullKeys(outcome.val) = DOMAIN outcome.val

RoundTripTypes ==
    {"ProjectModel", "VersionModel", "UserModel", "models.Dependency",
     "Project.Dependency", "GalleryImage", "License"}

\* C2: for each model type, from_json(to_json(m)) succeeds and gives an
\* instance of m's type that agrees with m on every non-null field of m
\* (for a Dependency: whenever its project lookup is answered with success).
C2_RoundTrip ==
    (/\ op = "from_json"
     /\ doc.of = "to_json"
     /\ obj.type \in RoundTripTypes
     /\ \A i \in 1..Len(requests) : Ok(requests[i].status))
        => /\ Returned(outcome)
           /\ outcome.val.type = obj.type
           /\ \A k \in NonNullKeys(obj.attrs) :
                /\ k \in DOMAIN outcome.val.attrs
                /\ outcome.val.attrs[k] = obj.attrs[k]

\* C3: the to_json of every Project.Dependency, built by the constructor or
\* by from_json, populates exactly one of version_id and project_id.
C3_ExactlyOneReference ==
    (op = "to_json" /\ obj.type = "Project.Dependency" /\ Returned(outcome))
        => Cardinality(NonNullKeys(outcome.val)
                       \cap {"version_id", "project_id"}) = 1

\* C4: resolving a project-reference dependency whose project has published
\* no version ends in a resolution error of its own: not an IndexError, not
\* a returned null.
C4_ZeroVersionsResolutionError ==
    (/\ op = "Project.Dependency.get_version"
     /\ args.self.attrs["dependency_type"] = Str("project")
     /\ Len(requests) = 2
     /\ \A i \in 1..2 : Ok(requests[i].status)
     /\ args.resp.body = <<>>)
        => /\ outcome.kind = "raise"
           /\ outcome.err # "IndexError"

\* the list get_versions returns for the arguments of the call at hand
Listed ==
    Project_get_versions(args.self, args.loaders, args.game_versions,
                         args.featured, args.types, args.auth, args.resp).out

\* the places of the server's list (newest first) that pass the types filter
Passing ==
    {i \in 1..Len(args.resp.body) :
        \/ ~Truthy(args.types)
        \/ \E j \in 1..Len(args.types.val) :
              args.types.val[j] = args.resp.body[i]["version_type"]}
Newest == CHOOSE i \in Passing : \A j \in Passing : i <= j
Oldest == CHOOSE i \in Passing : \A j \in Passing : i >= j
NameOf(version) == version.attrs["model"].attrs["name"]

\* C5: when the list get_versions returns for the filters is not empty,
\* get_latest_version returns its first element and get_oldest_version its
\* last: the newest and the oldest version of the server's newest-first list
\* that pass the filter.
C5_LatestFirstOldestLast ==
    /\ (/\ op = "Project.get_latest_version"
        /\ Returned(Listed)
        /\ Listed.val # <<>>)
          => /\ outcome = Return(Listed.val[1])
             /\ NameOf(outcome.val) = args.resp.body[Newest]["name"]
    /\ (/\ op = "Project.get_oldest_version"
        /\ Returned(Listed)
        /\ Listed.val # <<>>)
          => /\ outcome = Return(Listed.val[Len(Listed.val)])
             /\ NameOf(outcome.val) = args.resp.body[Oldest]["name"]

\* a filtered list of two out of three versions whose oldest is returned
C5_Witness ==
    /\ op = "Project.get_oldest_version"
    /\ Truthy(args.types)
    /\ Len(args.resp.body) = 3
    /\ Returned(Listed)
    /\ Len(Listed.val) = 2
    /\ Returned(outcome)
    /\ NameOf(outcome.val) = args.resp.body[2]["name"]

\* C6: when the list for the filters is empty, get_latest_version and
\* get_oldest_version return an absence signal; neither raises.
C6_EmptyListAbsenceSignal ==
    (/\ op \in {"Project.get_latest_version", "Project.get_oldest_version"}
     /\ Returned(Listed)
     /\ Listed.val = <<>>)
        => /\ Returned(outcome)
           /\ IsNone(outcome.val)

\* C7: Project.modify with every field argument None raises
\* InvalidParamError and issues no HTTP request, with or without a token.
C7_ModifyNoFieldsRejected ==
    (/\ op = "Project.modify"
     /\ \A k \in DOMAIN args.fields : IsNone(args.fields[k]))
        => /\ Raised(outcome, "InvalidParamError")
           /\ requests = <<>>

C7_Witness ==
    /\ op = "Project.modify"
    /\ \A k \in DOMAIN args.fields : IsNone(args.fields[k])
    /\ Truthy(args.auth)
    /\ Raised(outcome, "InvalidParamError")

\* C8: Project.modify_gallery_image with the url alone (featured, title,
\* description and ordering all None) is rejected with InvalidParamError
\* before any HTTP request; stated for the calls that pass a token, which
\* get past get_auth.
C8_ModifyGalleryImageNoFieldsRejected ==
    (/\ op = "Project.modify_gallery_image"
     /\ Truthy(args.auth)
     /\ IsNone(args.featured) /\ IsNone(args.title)
     /\ IsNone(args.description) /\ IsNone(args.ordering))
        => /\ Raised(outcome, "InvalidParamError")
           /\ requests = <<>>

Answered404 == requests # <<>> /\ requests[Len(requests)].status = 404

GetOperations ==
    {"Project.get_versions", "Project.get_version",
     "Project.get_dependencies", "User.from_id", "User.get_projects",
     "User.get_followed_projects", "User.get_notifications"}

WriteOperations ==
    {"Project.delete", "Project.modify", "Project.create_version",
     "Project.change_icon", "Project.delete_icon",
     "Project.add_gallery_image", "Project.modify_gallery_image",
     "Project.delete_gallery_image", "User.create_project",
     "User.follow_project", "User.unfollow_project"}

\* C10: a write operation that is answered 404 raises NotFoundError and no
\* other error.
C10_WriteNotFound ==
    (op \in WriteOperations /\ Answered404) => Raised(outcome, "NotFoundError")

Answered401 == requests # <<>> /\ requests[Len(requests)].status = 401

AuthOperations ==
    {"Project.get_versions", "Project.get_latest_version",
     "Project.get_oldest_version", "Project.create_version",
     "Project.change_icon", "Project.delete_icon",
     "Project.add_gallery_image", "Project.modify_gallery_image",
     "Project.delete_gallery_image", "Project.modify", "Project.delete",
     "User.from_auth", "User.create_project", "User.follow_project",
     "User.unfollow_project", "User.get_followed_projects",
     "User.get_notifications"}

\* C11: an operation that sends an authorization header and is answered 401
\* raises NoAuthorizationError and no other error.
C11_Unauthorized ==
    (op \in AuthOperations /\ Answered401)
        => Raised(outcome, "NoAuthorizationError")

\* the operations of the resource layer whose answer the call record keeps
\* with its content
AnsweredOperations == GetOperations \cup {"User.from_auth"}

\* C12: an InvalidRequestError raised for a non-success answer carries the
\* content of that answer.
C12_InvalidRequestCarriesBody ==
    (op \in AnsweredOperations /\ Raised(outcome, "InvalidRequestError"))
        => \E i \in 1..Len(outcome.args) :
              outcome.args[i] = Str(args.resp.content)

\* C13: InvalidParamError is raised only before the operation has issued
\* any HTTP request.
C13_InvalidParamBeforeNetwork ==
    Raised(outcome, "InvalidParamError") => requests = <<>>

\* the files of the version a download was called on, as get_files gives
\* them
FilesOf(self) == Version_get_files(self).val

\* what gets written for a file: the content of the answer to its fetch
Fetched(file, world) ==
    [filename |-> file.attrs["filename"],
     content |-> FetchContent(file.attrs["url"].val,
                              world.fetch[file.attrs["url"].val])]

FetchOf(file, world) ==
    Request("GET", file.attrs["url"].val,
            FetchStatus(world.fetch[file.attrs["url"].val]))

\* every fetch of files is answered and every file of files can be written
Unhindered(files, world) ==
    \A i \in 1..Len(files) :
        /\ world.fetch[files[i].attrs["url"].val] # "down"
        /\ files[i].attrs["filename"] \notin world.locked

\* C14: Version.download(recursive=False) on files f1..fn requests nothing
\* but the fi.url in list order; when every fetch is answered and every file
\* can be opened it returns after exactly n requests, having written to each
\* fi.filename the content fetched from fi.url, whether or not that content
\* matches fi.hashes.
C14_DownloadFetchesAndWritesEachFile ==
    (op = "Version.download" /\ ~args.recursive)
        => LET files == FilesOf(args.self)
           IN /\ Len(requests) <= Len(files)
              /\ \A i \in 1..Len(requests) :
                    requests[i] = FetchOf(files[i], args.world)
              /\ Unhindered(files, args.world) => Returned(outcome)
              /\ Returned(outcome)
                    => /\ Len(requests) = Len(files)
                       /\ written = [i \in 1..Len(files) |->
                                        Fetched(files[i], args.world)]

\* a single file mod.jar whose fetch is answered with bytes that do not match
\* the declared hash: one request, one file mod.jar holding those bytes
C14_Witness ==
    /\ op = "Version.download"
    /\ ~args.recursive
    /\ args.self.attrs["model"].attrs["files"] = List(<<Dict(ModJar)>>)
    /\ args.world.fetch["cdn/mod.jar"] = "corrupt"
    /\ Returned(outcome)
    /\ Len(requests) = 1
    /\ written = <<[filename |-> Chars(<<"m", "o", "d", ".", "j", "a", "r">>),
                    content |-> "other bytes of cdn/mod.jar"]>>

\* how many of the call's requests went to url
RequestsTo(url) == Cardinality({i \in 1..Len(requests) : requests[i].url = url})

\* C15: Version.download(recursive=True) on a version whose only dependency
\* is a required dependency on project P issues, over the whole call,
\* exactly one project lookup of P and exactly one versions-list request for
\* P.
C15_OneLookupOneVersionsList ==
    (/\ op = "Version.download"
     /\ args.recursive
     /\ args.self.attrs["model"].attrs["dependencies"]
            = List(<<OnProject("required")>>)
     /\ Returned(outcome))
        => /\ RequestsTo("/project/{id}") = 1
           /\ RequestsTo("/project/{slug}/version") = 1

Downloads == {"Version.download", "Project.download"}

\* the dependencies declared by the version a download works on
Declared == args.version["dependencies"].val

\* how many of the declared dependencies reference a version
VersionReferences ==
    Cardinality({i \in 1..Len(Declared) :
                    Truthy(Declared[i].val["version_id"])})

WrittenTo(filename) ==
    Cardinality({i \in 1..Len(written) : written[i].filename = filename})

\* C16: a recursive download resolves one level only.  Version X is declared
\* only by resolved dependency versions (W in the chain graph, the latest
\* version of P): its file is never fetched or written.  No version is
\* fetched beyond the version references the downloaded version declares,
\* and no file is fetched twice, also when W depends back on V.  Every call
\* is one finite evaluation, so it ends for each graph.
C16_OneLevelOnly ==
    (op \in Downloads /\ args.recursive)
        => /\ RequestsTo("cdn/x.jar") = 0
           /\ WrittenTo(XJar.filename) = 0
           /\ RequestsTo("/version/{id}") <= VersionReferences
           /\ \A url \in Urls : RequestsTo(url) <= 1

\* V depends on W and W on V: V's files and W's file are written once, and
\* the call returns
C16_Witness ==
    /\ op = "Version.download"
    /\ args.recursive
    /\ Declared = <<OnVersion("W", "required")>>
    /\ args.world.version["W"].body["dependencies"]
            = List(<<OnVersion("V", "required")>>)
    /\ Returned(outcome)
    /\ WrittenTo(ModJar.filename) = 1
    /\ WrittenTo(WJar.filename) = 1
    /\ RequestsTo("/version/{id}") = 1

\* a request that got no answer, or an answer that is not a success
FailedRequest(request) == request.status = 0 \/ request.status >= 400

\* C17: in a download the first failed request is the last request of the
\* call, and the call ends with the error: nothing is fetched, resolved or
\* written after it.
C17_FirstFailureAborts ==
    op \in Downloads
        => \A i \in 1..Len(requests) :
              FailedRequest(requests[i])
                  => /\ i = Len(requests)
                     /\ outcome.kind = "raise"

\* the file of the version a declared dependency resolves to: W for a
\* version reference, the latest version of P for a project reference
FileOfDependency(json_) ==
    IF Truthy(json_.val["version_id"]) THEN WJar ELSE PJar

\* C18: a recursive download that returns has resolved every declared
\* dependency, whatever its dependency_option, and written its file: one
\* file for each own file and one for each declared dependency.
C18_EveryDependencyDownloaded ==
    (op \in Downloads /\ args.recursive /\ Returned(outcome))
        => /\ Len(written) = Len(args.version["files"].val) + Len(Declared)
           /\ \A i \in 1..Len(Declared) :
                 WrittenTo(FileOfDependency(Declared[i]).filename) = 1

\* an optional and an incompatible dependency, both downloaded
C18_Witness ==
    /\ op = "Version.download"
    /\ args.recursive
    /\ Declared = <<OnProject("optional"), OnVersion("W", "incompatible")>>
    /\ Returned(outcome)
    /\ WrittenTo(PJar.filename) = 1
    /\ WrittenTo(WJar.filename) = 1

\* C19: Dependency.get_version on a version reference issues one request,
\* the fetch of that version by the dependency's id, and returns the version
\* made of its answer; on a project reference that returns, it has looked
\* the project up by the dependency's id, asked for its versions with no
\* filter, and returns the version made of the first element of the list.
C19_GetVersionByReference ==
    op = "Project.Dependency.get_version"
        => IF args.self.attrs["dependency_type"] = Str("version")
           THEN /\ requests = <<[method |-> "GET", url |-> "/version/{id}",
                                 id |-> args.self.attrs["id"],
                                 status |-> args.resp.status]>>
                /\ Ok(args.resp.status)
                      => outcome = Version_init(Dict(args.resp.body))
           ELSE Returned(outcome)
                  => /\ Len(requests) = 2
                     /\ requests[1].url = "/project/{id}"
                     /\ requests[1].id = args.self.attrs["id"]
                     /\ requests[2].url = "/project/{slug}/version"
                     /\ DOMAIN requests[2].params = {}
                     /\ outcome = Version_init(Dict(args.resp.body[1]))

\* a version reference answered with the version
C19_Witness ==
    /\ op = "Project.Dependency.get_version"
    /\ args.self.attrs["dependency_type"] = Str("version")
    /\ Returned(outcome)
    /\ Len(requests) = 1
    /\ outcome.val.attrs["model"].attrs["name"] = args.resp.body["name"]

\* a project reference answered with two versions or more: the first is
\* returned
C19_WitnessProject ==
    /\ op = "Project.Dependency.get_version"
    /\ args.self.attrs["dependency_type"] = Str("project")
    /\ Returned(outcome)
    /\ Len(args.resp.body) >= 2
    /\ args.resp.body[1] # args.resp.body[2]
    /\ outcome = Version_init(Dict(args.resp.body[1]))

\* the fields of the multipart request of create_version other than data
FileFields(request) == DOMAIN request.files \ {DataKey}

\* C20: the request of create_version holds the field data, the JSON of the
\* version metadata, and one file field for each path of
\* version_model.files.
C20_OneFileFieldPerPath ==
    (op = "Project.create_version" /\ requests # <<>>)
        => /\ DataKey \in DOMAIN requests[1].files
           /\ requests[1].files[DataKey].tag = "json"
           /\ Cardinality(FileFields(requests[1]))
                = Len(args.version_model.attrs["files"].val)

\* the field arguments of a modify call that were passed with a value
Passed(fields) == {k \in DOMAIN fields : fields[k] # None}

\* C21: the PATCH body of Project.modify has exactly the fields passed with
\* a value other than None, each with the value passed; an empty string or
\* an empty list is a value and is kept, so a call that passes only empty
\* values is not rejected as a call without fields.
C21_ModifyBodyIsThePassedFields ==
    op = "Project.modify"
        => /\ requests # <<>>
                => /\ DOMAIN requests[1].data = Passed(args.fields)
                   /\ \A k \in Passed(args.fields) :
                         requests[1].data[k] = args.fields[k]
           /\ Raised(outcome, "InvalidParamError")
                => Passed(args.fields) = {}

\* a call that passes an empty title and an empty categories list, and not
\* the slug
C21_Witness ==
    /\ op = "Project.modify"
    /\ requests # <<>>
    /\ args.fields["title"] = Str("")
    /\ args.fields["categories"] = List(<<>>)
    /\ args.fields["slug"] = None
    /\ DOMAIN requests[1].data = {"title", "categories"}
    /\ requests[1].data["title"] = Str("")

\* the fields of a version that the server assigns
ServerFields == {"id", "author_id", "date_published", "downloads"}

\* C22: the server-assigned fields of a VersionModel are None on a model
\* built with the constructor, and hold the values of the response on a
\* model made by VersionModel.from_json from an API body.
C22_ServerFieldsPopulated ==
    /\ (op = "VersionModel" /\ Returned(outcome))
          => \A k \in ServerFields : obj.attrs[k] = None
    /\ (/\ op = "from_json"
        /\ doc.of = "api"
        /\ doc.type = "VersionModel"
        /\ Returned(outcome))
          => \A k \in ServerFields : outcome.val.attrs[k] = doc.json[k]

\* the versions of the response that a types argument lets through
Admitted(body, types) ==
    IF ~Truthy(types) THEN body
    ELSE SelectSeq(body,
            LAMBDA version :
                version["version_type"]
                    \in {types.val[i] : i \in 1..Len(types.val)})

\* the filters a get_versions call was given a value for, in the order of
\* the query
FiltersGiven ==
    SelectSeq(<<"loaders", "game_versions", "featured">>,
              LAMBDA key : args[key] # None)

\* C23: get_versions returns the versions of the response whose
\* version_type is in types, in the order of the response, and the whole
\* response when types is None or empty; the query holds the filters among
\* loaders, game_versions and featured that are not None, each with its
\* JSON-encoded value, and never types.
C23_GetVersionsFilters ==
    (op = "Project.get_versions" /\ Returned(outcome))
        => LET admitted == Admitted(args.resp.body, args.types)
           IN /\ Len(outcome.val) = Len(admitted)
              /\ \A i \in 1..Len(admitted) :
                    Return(outcome.val[i]) = Version_init(Dict(admitted[i]))
              /\ Len(requests) = 1
              /\ Len(requests[1].params) = Len(FiltersGiven)
              /\ \A i \in 1..Len(FiltersGiven) :
                    /\ requests[1].params[i].key = FiltersGiven[i]
                    /\ requests[1].params[i].value.of = args[FiltersGiven[i]]

\* three versions of which the second is not of an asked type; featured is
\* passed as False and sent, loaders is None and not sent
C23_Witness ==
    /\ op = "Project.get_versions"
    /\ Returned(outcome)
    /\ args.types = List(<<Str("release"), Str("alpha")>>)
    /\ Len(args.resp.body) = 3
    /\ args.resp.body[1]["version_type"] = Str("alpha")
    /\ args.resp.body[2]["version_type"] = Str("beta")
    /\ args.resp.body[3]["version_type"] = Str("release")
    /\ Len(outcome.val) = 2
    /\ args.featured = Bool(FALSE)
    /\ args.loaders = None
    /\ args.game_versions # None
    /\ Len(requests[1].params) = 2

StatusErrors ==
    {"NotFoundError", "NoAuthorizationError", "InvalidParamError",
     "InvalidRequestError"}

Success2xx(status) == status \in 200..299

\* C24: an operation that reports success as a boolean returns True only
\* for an answer with a 2xx status; for every other status it raises one of
\* NotFoundError, NoAuthorizationError, InvalidParamError and
\* InvalidRequestError.
C24_TrueOnlyFor2xx ==
    (op \in WriteOperations /\ requests # <<>>)
        => /\ outcome = Return(True) => Success2xx(requests[1].status)
           /\ ~Success2xx(requests[1].status)
                 => \E e \in StatusErrors : Raised(outcome, e)

\* how many of the declared dependencies reference a project
ProjectReferences == Len(Declared) - VersionReferences

\* the requests made while the Dependency descriptors are built: they
\* follow the fetches of the n own files
Building(n) ==
    {i \in 1..Len(requests) : n < i /\ i <= n + ProjectReferences}

\* C25: in Version.download(recursive=True) the own files are fetched in
\* list order first and are all written before any other request; the
\* requests that follow are the project lookups of the descriptors, one for
\* each project reference, before any version is resolved or any dependency
\* file fetched; when one of these lookups fails, exactly the own files are
\* written.
C25_OwnFilesThenDescriptorsThenDependencies ==
    (op = "Version.download" /\ args.recursive)
        => LET files == FilesOf(args.self)
               n == Len(files)
           IN /\ \A i \in 1..Len(requests) :
                    i <= n => requests[i] = FetchOf(files[i], args.world)
              /\ Len(requests) > n
                    => /\ Len(written) >= n
                       /\ \A i \in 1..n :
                             written[i] = Fetched(files[i], args.world)
              /\ \A i \in Building(n) : requests[i].url = "/project/{id}"
              /\ (\E i \in Building(n) : FailedRequest(requests[i]))
                    => Len(written) = n

\* two own files, a version reference declared before a project reference
\* whose lookup is answered 404: both own files are written and nothing else
C25_Witness ==
    /\ op = "Version.download"
    /\ args.recursive
    /\ Declared = <<OnVersion("W", "required"), OnProject("required")>>
    /\ Len(FilesOf(args.self)) = 2
    /\ args.world.lookup = 404
    /\ Raised(outcome, "NotFoundError")
    /\ Len(requests) = 3
    /\ Len(written) = 2
    /\ WrittenTo(WJar.filename) = 0

\* what self.get_latest_version() gives in the Project.download at hand
LatestFound ==
    Project_get_latest_version(args.self, None, None, None, None, None,
                               args.world.own)

\* what Version.download does, called on version with the arguments and
\* against the servers of the Project.download at hand
OnLatest(version) == Version_download(version, args.recursive, args.world)

SameAs(found, done) ==
    /\ Len(found.reqs) = 1
    /\ requests = found.reqs \o done.reqs
    /\ written = done.written
    /\ outcome = done.out

\* C26: a Project.download that finds the latest version issues, after the
\* one versions-list request, the requests of Version.download on that
\* version, writes the same files in the same order and ends the same way,
\* for recursive True and False.
C26_ProjectDownloadIsVersionDownloadOnLatest ==
    (op = "Project.download" /\ Returned(LatestFound.out))
        => SameAs(LatestFound, OnLatest(LatestFound.out.val))

\* a recursive download of a project whose latest version has two files and
\* two dependencies
C26_Witness ==
    /\ op = "Project.download"
    /\ args.recursive
    /\ Returned(outcome)
    /\ Len(Declared) = 2
    /\ requests[1].url = "/project/{slug}/version"
    /\ Len(written) = 4

\* C27: in the request of create_version every entry of file_parts in the
\* data JSON is the key of a file field of the same request.
C27_FilePartsNameFileFields ==
    (op = "Project.create_version" /\ requests # <<>>)
        => LET data == requests[1].files[DataKey]
           IN /\ data.tag = "json"
              /\ \A i \in 1..Len(data.of["file_parts"].val) :
                    data.of["file_parts"].val[i].val
                        \in FileFields(requests[1])

\* Project.Dependency.from_json is applied to an API body, and the project
\* lookup is answered as the server answers for the id looked up
DependencyParsed ==
    /\ op = "from_json"
    /\ doc.of = "api"
    /\ doc.type = "Project.Dependency"
    /\ args.status \in LookupStatuses(doc.json["project_id"])

C28_WitnessBothNull ==
    /\ DependencyParsed
    /\ doc.json["version_id"] = None
    /\ doc.json["project_id"] = None
    /\ Len(requests) = 1
    /\ requests[1].id = None
    /\ Raised(outcome, "NotFoundError")

====
